---- MODULE Spec2Model ----
(***************************************************************************)
(* Model of prompts-mcp (src/prompts_mcp/main.py): the prompt loader       *)
(* load_prompt_file, the load pass load_all_prompts, register_prompt and   *)
(* its prompt_handler closure, the two-stage signal_handler and main.      *)
(*                                                                         *)
(* Text is modelled as a sequence of one-character strings, so that        *)
(* strip, upper, startswith, split, slicing and title are computed         *)
(* character by character as Python computes them.  Path semantics are     *)
(* those of a POSIX build (case-sensitive glob and file names).            *)
(***************************************************************************)
EXTENDS Integers, Sequences, FiniteSets, TLC

VARIABLES
  \* --- the process and its environment
  env,           \* value of PROMPTS_DIR: Unset or a path string
  dir,           \* names of the entries of the prompts directory
  alive,         \* the process has not terminated
  exit_code,     \* exit status once terminated (negative: killed by signal)
  events,        \* what the process did, in order: log records, loader
                 \* calls, registrations, signal installs, exits
  \* --- PromptsMCPServer fields
  prompts_dir, app, signal_count,
  \* --- main thread
  pc,            \* position of main
  todo,          \* entries the glob iterator has still to yield
  prompt_count,  \* local of load_all_prompts
  registry,      \* the framework's prompt table: name -> captured values
  last_call,     \* the last handler invocation and its result
  \* --- signals
  handlers,      \* installed handler per signal
  pending,       \* signals tripped and not yet dispatched
  frames,        \* stack of running signal_handler calls (positions)
  delivered,     \* number of signals delivered so far
  late,          \* a signal was delivered while signal_handler was running
  \* --- load_prompt_file applied to one file
  lp_path, lp_disk, lp_out,
  \* --- the development and release scripts
  argv,             \* sys.argv[1:]
  cmd,              \* the command string given to run_command
  prerelease_type,  \* result of parse_arguments
  publish_index,    \* result of parse_arguments
  commands,         \* sub-commands run_command has still to run
  ret               \* where the caller of run_command goes on

\* ------------------------------------------------------------------------
\* Bounds of the model
\* ------------------------------------------------------------------------
MaxLines == 3      \* lines of a generated prompt file
MaxFiles == 2      \* entries of the prompts directory
MaxSignals == 2    \* signals delivered to the process

\* ------------------------------------------------------------------------
\* Python str primitives
\* ------------------------------------------------------------------------
None == "None"

NL == "\n"
CR == "\r"
TAB == "\t"

\* the ASCII characters str.strip() removes
Whitespace == {" ", TAB, NL, CR, "\f"}

SetMin(S) == CHOOSE x \in S : \A y \in S : x <= y
SetMax(S) == CHOOSE x \in S : \A y \in S : y <= x

LowerChars ==
  <<"a","b","c","d","e","f","g","h","i","j","k","l","m",
    "n","o","p","q","r","s","t","u","v","w","x","y","z">>
UpperChars ==
  <<"A","B","C","D","E","F","G","H","I","J","K","L","M",
    "N","O","P","Q","R","S","T","U","V","W","X","Y","Z">>

IsLower(c) == \E i \in 1..26 : LowerChars[i] = c
IsUpper(c) == \E i \in 1..26 : UpperChars[i] = c
IsCased(c) == IsLower(c) \/ IsUpper(c)
UpperChar(c) ==
  IF IsLower(c) THEN UpperChars[CHOOSE i \in 1..26 : LowerChars[i] = c] ELSE c
LowerChar(c) ==
  IF IsUpper(c) THEN LowerChars[CHOOSE i \in 1..26 : UpperChars[i] = c] ELSE c

\* str.upper()
Upper(s) == [i \in 1..Len(s) |-> UpperChar(s[i])]

\* str.strip()
Strip(s) ==
  IF \A i \in 1..Len(s) : s[i] \in Whitespace THEN <<>>
  ELSE LET first == CHOOSE i \in 1..Len(s) :
                      /\ s[i] \notin Whitespace
                      /\ \A j \in 1..(i - 1) : s[j] \in Whitespace
           last == CHOOSE i \in 1..Len(s) :
                     /\ s[i] \notin Whitespace
                     /\ \A j \in (i + 1)..Len(s) : s[j] \in Whitespace
       IN  SubSeq(s, first, last)

\* str.startswith(p)
StartsWith(s, p) == Len(s) >= Len(p) /\ SubSeq(s, 1, Len(p)) = p

\* str.endswith(p)
EndsWith(s, p) ==
  Len(s) >= Len(p) /\ SubSeq(s, Len(s) - Len(p) + 1, Len(s)) = p

\* s[:n]
Slice(s, n) == SubSeq(s, 1, IF Len(s) < n THEN Len(s) ELSE n)

\* str.replace(a, b) for single characters
Replace(s, a, b) == [i \in 1..Len(s) |-> IF s[i] = a THEN b ELSE s[i]]

\* str.split("\n"): always at least one element
RECURSIVE Split(_)
Split(s) ==
  LET cuts == {i \in 1..Len(s) : s[i] = NL}
  IN  IF cuts = {} THEN <<s>>
      ELSE LET i == SetMin(cuts)
           IN  <<SubSeq(s, 1, i - 1)>> \o Split(SubSeq(s, i + 1, Len(s)))

\* "\n".join(lines)
RECURSIVE Join(_)
Join(lines) ==
  IF lines = <<>> THEN <<>>
  ELSE IF Len(lines) = 1 THEN lines[1]
  ELSE lines[1] \o <<NL>> \o Join(Tail(lines))

\* str.title(): a cased character is upper-cased when the character before
\* it is not cased, and lower-cased otherwise
Title_capitalize(s) ==
  [i \in 1..Len(s) |-> IF i > 1 THEN LowerChar(s[i]) ELSE UpperChar(s[i])]

Title(s) ==
  [i \in 1..Len(s) |->
     IF i > 1 /\ IsCased(s[i - 1]) THEN LowerChar(s[i]) ELSE UpperChar(s[i])]

\* ------------------------------------------------------------------------
\* pathlib
\* ------------------------------------------------------------------------
\* PurePath.name: the final component of a path
Name(path) ==
  LET seps == {i \in 1..Len(path) : path[i] = "/"}
  IN  IF seps = {} THEN path ELSE SubSeq(path, SetMax(seps) + 1, Len(path))

\* PurePath.stem: the final component without its last suffix; a name with
\* no dot after its first character, or ending in a dot, has no suffix
Stem_first_dot(path) ==
  LET name == Name(path)
      dots == {i \in 2..(Len(name) - 1) : name[i] = "."}
  IN  IF dots = {} THEN name ELSE SubSeq(name, 1, SetMin(dots) - 1)

Stem(path) ==
  LET name == Name(path)
      dots == {i \in 2..(Len(name) - 1) : name[i] = "."}
  IN  IF dots = {} THEN name ELSE SubSeq(name, 1, SetMax(dots) - 1)

\* Path.read_text(encoding="utf-8") on a readable, decodable file: text mode
\* with universal newlines, so "\r\n" and a lone "\r" are read as "\n"
UniversalNewlines_keeps_cr(s) == s

RECURSIVE UniversalNewlines(_)
UniversalNewlines(s) ==
  LET crs == {i \in 1..Len(s) : s[i] = CR}
  IN  IF crs = {} THEN s
      ELSE LET i == SetMin(crs)
               rest == IF i < Len(s) /\ s[i + 1] = NL THEN i + 2 ELSE i + 1
           IN  SubSeq(s, 1, i - 1) \o <<NL>>
                 \o UniversalNewlines(SubSeq(s, rest, Len(s)))

\* ------------------------------------------------------------------------
\* load_prompt_file
\* ------------------------------------------------------------------------
IdentityMarker ==
  <<"#"," ","I","D","E","N","T","I","T","Y"," ","A","N","D"," ",
    "P","U","R","P","O","S","E">>

DescriptionLimit == 100
Ellipsis == <<".", ".", ".">>

\* the first loop: description accumulated from the identity section
RECURSIVE IdentityScan(_, _, _, _)
IdentityScan(lines, i, in_identity_section, description) ==
  IF i > Len(lines) THEN description
  ELSE LET line == lines[i]
           stripped == Strip(line)
       IN  IF StartsWith(Upper(stripped), IdentityMarker)
           THEN IdentityScan(lines, i + 1, TRUE, description)
           ELSE IF StartsWith(stripped, <<"#">>) /\ in_identity_section
           THEN description
           ELSE IF in_identity_section /\ stripped # <<>>
           THEN IdentityScan(lines, i + 1, in_identity_section,
                             description \o stripped \o <<" ">>)
           ELSE IdentityScan(lines, i + 1, in_identity_section, description)

\* line.strip()[:100] + "..."
FallbackDescription_truncate_first(line) ==
  Strip(Slice(line, DescriptionLimit)) \o Ellipsis

FallbackDescription(line) == Slice(Strip(line), DescriptionLimit) \o Ellipsis

\* the second loop: the first non-empty line that does not start with "#"
RECURSIVE FallbackScan_any_line(_, _)
FallbackScan_any_line(lines, i) ==
  IF i > Len(lines) THEN <<>>
  ELSE IF Strip(lines[i]) # <<>> THEN FallbackDescription(lines[i])
  ELSE FallbackScan_any_line(lines, i + 1)

RECURSIVE FallbackScan_trimmed_heading(_, _)
FallbackScan_trimmed_heading(lines, i) ==
  IF i > Len(lines) THEN <<>>
  ELSE LET line == lines[i]
       IN  IF Strip(line) # <<>> /\ ~StartsWith(Strip(line), <<"#">>)
           THEN FallbackDescription(line)
           ELSE FallbackScan_trimmed_heading(lines, i + 1)

RECURSIVE FallbackScan(_, _)
FallbackScan(lines, i) ==
  IF i > Len(lines) THEN <<>>
  ELSE LET line == lines[i]
       IN  IF Strip(line) # <<>> /\ ~StartsWith(line, <<"#">>)
           THEN FallbackDescription(line)
           ELSE FallbackScan(lines, i + 1)

\* the record built from a path's name and the text read_text returned
ParsePrompt_fallback_first(name, content) ==
  LET lines == Split(content)
      second == FallbackScan(lines, 1)
      description == IF second = <<>>
                     THEN IdentityScan(lines, 1, FALSE, <<>>)
                     ELSE second
  IN  [name |-> Stem(name),
       title |-> Title(Replace(Stem(name), "_", " ")),
       description |-> Strip(description),
       content |-> content]

ParsePrompt(name, content) ==
  LET lines == Split(content)
      first == IdentityScan(lines, 1, FALSE, <<>>)
      description == IF Strip(first) = <<>> THEN FallbackScan(lines, 1)
                     ELSE first
  IN  [name |-> Stem(name),
       title |-> Title(Replace(Stem(name), "_", " ")),
       description |-> Strip(description),
       content |-> content]

\* ------------------------------------------------------------------------
\* Files and exceptions
\* ------------------------------------------------------------------------
\* what is behind a path: a readable text file with its stored characters,
\* or an entry whose read fails
FileKinds == {"text", "missing", "denied", "isdir", "ioerror", "badutf8"}

TextFile(disk) == [kind |-> "text", disk |-> disk]
BadFile(kind) == [kind |-> kind, disk |-> <<>>]

\* the exception Path.read_text raises for an entry that cannot be read
ReadError(kind) ==
  CASE kind = "missing" -> "FileNotFoundError"
    [] kind = "denied"  -> "PermissionError"
    [] kind = "isdir"   -> "IsADirectoryError"
    [] kind = "ioerror" -> "OSError"
    [] kind = "badutf8" -> "UnicodeDecodeError"

\* Python's built-in exception hierarchy, as far as the program meets it
Bases(exc) ==
  CASE exc = "FileNotFoundError"  -> {"OSError"}
    [] exc = "PermissionError"    -> {"OSError"}
    [] exc = "IsADirectoryError"  -> {"OSError"}
    [] exc = "UnicodeDecodeError" -> {"ValueError"}
    [] exc = "OSError"            -> {"Exception"}
    [] exc = "ValueError"         -> {"Exception"}
    [] exc = "RuntimeError"       -> {"Exception"}
    [] exc = "KeyError"           -> {"Exception"}
    [] OTHER                      -> {}

Ancestors(exc) ==
  {exc} \cup Bases(exc) \cup UNION {Bases(b) : b \in Bases(exc)}

\* an except clause naming the classes in caught handles exc
Handles(caught, exc) == Ancestors(exc) \cap caught # {}

NoRecord == [name |-> <<>>, title |-> <<>>, description |-> <<>>,
             content |-> <<>>]

\* Path.read_text(encoding="utf-8")
read_text(file) ==
  IF file.kind = "text"
  THEN [exc |-> None, text |-> UniversalNewlines(file.disk)]
  ELSE [exc |-> ReadError(file.kind), text |-> <<>>]

load_prompt_file_swallows(name, file) ==
  LET r == read_text(file)
  IN  IF r.exc = None
      THEN [exc |-> None, data |-> ParsePrompt(name, r.text)]
      ELSE IF Handles({"OSError"}, r.exc)
      THEN [exc |-> None, data |-> ParsePrompt(name, <<>>)]
      ELSE [exc |-> r.exc, data |-> NoRecord]

\* load_prompt_file(prompt_path): the record, or the exception it raises
load_prompt_file(name, file) ==
  LET r == read_text(file)
  IN  IF r.exc = None
      THEN [exc |-> None, data |-> ParsePrompt(name, r.text)]
      ELSE [exc |-> r.exc, data |-> NoRecord]

\* ------------------------------------------------------------------------
\* prompt_handler
\* ------------------------------------------------------------------------
\* an argument map; is_none distinguishes None from the empty map
NoneArgs == [is_none |-> TRUE, map |-> <<>>]
Args(m) == [is_none |-> FALSE, map |-> m]

prompt_handler_always_appends(content, arguments) ==
  IF ~arguments.is_none /\ "input" \in DOMAIN arguments.map
  THEN content \o <<NL, NL>> \o arguments.map["input"]
  ELSE content

\* the closure registered for one prompt, applied to its arguments
prompt_handler(content, arguments) ==
  IF /\ ~arguments.is_none
     /\ DOMAIN arguments.map # {}
     /\ "input" \in DOMAIN arguments.map
     /\ arguments.map["input"] # <<>>
  THEN content \o <<NL, NL>> \o arguments.map["input"]
  ELSE content

\* ------------------------------------------------------------------------
\* Environment: PROMPTS_DIR, home expansion, resolution, the file system
\* ------------------------------------------------------------------------
Unset == <<"<", "u", "n", "s", "e", "t", ">">>   \* os.getenv returns None
NoPath == <<>>                                   \* prompts_dir is None

Home == <<"/", "h">>
Cwd == <<"/", "w">>

\* Path.expanduser: "~" and "~/..." become the home directory; "~user" of an
\* unknown user raises RuntimeError
ExpandUserFails(p) ==
  StartsWith(p, <<"~">>) /\ p # <<"~">> /\ ~StartsWith(p, <<"~", "/">>)
ExpandUser(p) == IF StartsWith(p, <<"~">>) THEN Home \o Tail(p) ELSE p

\* Path.resolve: a relative path is taken from the working directory
Resolve(p) == IF StartsWith(p, <<"/">>) THEN p ELSE Cwd \o <<"/">> \o p

\* the directories that exist
ExistingPaths == {<<"/", "h", "/", "p">>, <<"/", "p">>, <<"/", "w", "/", "p">>}
Exists(p) == p \in ExistingPaths

EnvValid == {<<"~", "/", "p">>, <<"/", "p">>, <<"p">>}
EnvMissing == {<<"/", "x">>, <<"~", "/", "x">>, <<"x">>}
EnvNoHome == {<<"~", "z">>}
EnvAbsent == {Unset, <<>>}
EnvValues == EnvValid \cup EnvMissing \cup EnvNoHome \cup EnvAbsent

NotSet_only_none(e) == e = Unset

\* os.getenv("PROMPTS_DIR") is falsy
NotSet(e) == e = Unset \/ e = <<>>

\* ------------------------------------------------------------------------
\* The prompts directory
\* ------------------------------------------------------------------------
Md == <<".", "m", "d">>
README_md == <<"R", "E", "A", "D", "M", "E">> \o Md
readme_md == <<"r", "e", "a", "d", "m", "e">> \o Md
a_md == <<"a">> \o Md
b_c_md == <<"b", "_", "c">> \o Md
bad_md == <<"b", "a", "d">> \o Md
enc_md == <<"e", "n", "c">> \o Md
dot_md == Md
x_md == <<"x", "_", "Y", "z", "_", "_", "1", "b", ".", "v", "2">> \o Md
n_txt == <<"n", ".", "t", "x", "t">>

HeadingA == <<"#", " ", "A">>
HeadingUsage == <<"#", " ", "U", "S", "A", "G", "E">>
DoesA == <<"D", "o", "e", "s", " ", "A", ".">>
UseIt == <<"u", "s", "e", " ", "i", "t">>
IgnoreMe == <<"i", "g", "n", "o", "r", "e", " ", "m", "e">>

\* every entry a prompts directory of the model can hold
Universe ==
  (a_md :> TextFile(Join(<<HeadingA, <<>>, IdentityMarker, DoesA, <<>>,
                           HeadingUsage, UseIt>>)))
  @@ (README_md :> TextFile(IgnoreMe))
  @@ (readme_md :> TextFile(IgnoreMe))
  @@ (bad_md :> BadFile("denied"))
  @@ (enc_md :> BadFile("badutf8"))
  @@ (n_txt :> TextFile(UseIt))

Restrict(f, S) == [x \in S |-> f[x]]

\* the directories of the server process: up to MaxFiles entries, the file
\* that fails being the undecodable one
Directories ==
  {Restrict(Universe, S) :
     S \in {T \in SUBSET (DOMAIN Universe \ {bad_md}) :
              Cardinality(T) <= MaxFiles}}

Glob_all(d) == DOMAIN d

\* Path.glob("*.md") on a POSIX build: the entries whose name ends in ".md"
Glob(d) == {n \in DOMAIN d : EndsWith(n, Md)}

\* ------------------------------------------------------------------------
\* Events
\* ------------------------------------------------------------------------
Event(ev, lvl, msg, file, n) ==
  [ev |-> ev, lvl |-> lvl, msg |-> msg, file |-> file, n |-> n, exc |-> None]

Log(lvl, msg, file) == Event("log", lvl, msg, file, 0)
\* a log record whose text includes the exception e
LogExc(lvl, msg, file, e) == [Log(lvl, msg, file) EXCEPT !.exc = e]
LoadEv(file) == Event("load", "", "", file, 0)
RegisterEv(name) == Event("register", "", "", name, 0)
InstallEv(sig, h) == Event("signal", h, sig, <<>>, 0)
\* the interpreter calls the installed handler h for a tripped signal (the
\* handlers ignore which one); n is signal_count at that time
DispatchEv(h, n) == Event("dispatch", h, "", <<>>, n)
CreateAppEv == Event("FastMCP", "", "", <<>>, 0)
TracebackEv(exc) == Event("traceback", "", exc, <<>>, 0)
ExitEv(code) == Event("exit", "", "", <<>>, code)

MsgRequired == "PROMPTS_DIR environment variable is required"
MsgNoDir == "Prompts directory does not exist"
MsgStarting == "Starting prompts-mcp server with FastMCP"
MsgUsing == "Using prompts directory"
MsgDirNone == "PROMPTS_DIR is not initialized"
MsgLoadError == "Error loading prompt file"
MsgLoaded == "Loaded prompts"
MsgAppNone == "FastMCP app is not initialized"
MsgServerError == "Server error"
MsgGraceful == "Received interrupt signal, shutting down gracefully..."
MsgHint == "Press Ctrl+C again to force exit"
MsgSecond == "Received second interrupt signal, forcing exit..."

Count(seq, P(_)) == Cardinality({i \in 1..Len(seq) : P(seq[i])})
IsError(e) == e.ev = "log" /\ e.lvl = "error"
IsRegister(e) == e.ev = "register"
IsLoad(e) == e.ev = "load"

\* ------------------------------------------------------------------------
\* Variable groups
\* ------------------------------------------------------------------------
worldVars == <<env, dir>>
procVars == <<alive, exit_code, events>>
serverVars == <<prompts_dir, app, signal_count>>
mainVars == <<pc, todo, prompt_count, registry, last_call>>
sigVars == <<handlers, pending, frames, delivered, late>>
lpVars == <<lp_path, lp_disk, lp_out>>
scriptVars == <<argv, cmd, prerelease_type, publish_index, commands, ret>>
vars ==
  <<worldVars, procVars, serverVars, mainVars, sigVars, lpVars, scriptVars>>

\* no script is running
NoScript ==
  /\ argv = <<>>
  /\ cmd = <<>>
  /\ prerelease_type = None
  /\ publish_index = None
  /\ commands = <<>>
  /\ ret = ""

Signals == {"SIGINT", "SIGTERM"}

\* the main thread runs only while no signal handler is on the stack
MainRuns(p) == alive /\ frames = <<>> /\ pc = p

\* the process ends with this status
Terminate(code) ==
  /\ alive' = FALSE
  /\ exit_code' = code
  /\ events' = Append(events, ExitEv(code))

\* an exception nothing catches: traceback, then exit status 1
Uncaught(exc) ==
  /\ alive' = FALSE
  /\ exit_code' = 1
  /\ events' = events \o <<TracebackEv(exc), ExitEv(1)>>

\* the entry behind a name of the directory; a name it does not hold is a
\* missing file
OnDisk(f) == IF f \in DOMAIN dir THEN dir[f] ELSE BadFile("missing")

NoCall == [name |-> <<>>, arguments |-> NoneArgs, result |-> <<>>,
           on_disk |-> BadFile("missing"), called |-> FALSE]

\* ------------------------------------------------------------------------
\* PromptsMCPServer.__init__ and _initialize_server
\* ------------------------------------------------------------------------
\* __init__ sets the three fields, then _initialize_server reads PROMPTS_DIR
\* and resolves it
initialize_server ==
  /\ MainRuns("construct")
  /\ signal_count' = 0
  /\ app' = None
  /\ IF NotSet(env)
     THEN /\ events' = Append(events, Log("error", MsgRequired, <<>>))
          /\ prompts_dir' = NoPath
          /\ pc' = "sys_exit"
          /\ UNCHANGED <<alive, exit_code>>
     ELSE IF ExpandUserFails(env)
     THEN /\ Uncaught("RuntimeError")
          /\ prompts_dir' = NoPath
          /\ pc' = "done"
     ELSE /\ prompts_dir' = Resolve(ExpandUser(env))
          /\ pc' = "check_dir"
          /\ UNCHANGED procVars
  /\ UNCHANGED <<worldVars, todo, prompt_count, registry, last_call,
                 sigVars, lpVars, scriptVars>>

\* the existence check, then the framework instance is created
check_prompts_dir ==
  /\ MainRuns("check_dir")
  /\ IF ~Exists(prompts_dir)
     THEN /\ events' = Append(events, Log("error", MsgNoDir, prompts_dir))
          /\ pc' = "sys_exit"
          /\ UNCHANGED app
     ELSE /\ app' = "FastMCP"
          /\ events' = Append(events, CreateAppEv)
          /\ pc' = "main_start"
  /\ UNCHANGED <<worldVars, alive, exit_code, prompts_dir, signal_count,
                 todo, prompt_count, registry, last_call, sigVars,
                 lpVars, scriptVars>>

\* sys.exit(1): SystemExit is caught nowhere in main
sys_exit ==
  /\ MainRuns("sys_exit")
  /\ Terminate(1)
  /\ pc' = "done"
  /\ UNCHANGED <<worldVars, serverVars, todo, prompt_count, registry,
                 last_call, sigVars, lpVars, scriptVars>>

\* ------------------------------------------------------------------------
\* main
\* ------------------------------------------------------------------------
main_start ==
  /\ MainRuns("main_start")
  /\ events' = events \o <<Log("info", MsgStarting, <<>>),
                           Log("info", MsgUsing, prompts_dir)>>
  /\ pc' = "install_sigint"
  /\ UNCHANGED <<worldVars, alive, exit_code, serverVars, todo, prompt_count,
                 registry, last_call, sigVars, lpVars, scriptVars>>

\* signal.signal(signal.SIGINT, server.signal_handler)
install_sigint ==
  /\ MainRuns("install_sigint")
  /\ handlers' = [handlers EXCEPT !["SIGINT"] = "signal_handler"]
  /\ events' = Append(events, InstallEv("SIGINT", "signal_handler"))
  /\ pc' = "install_sigterm"
  /\ UNCHANGED <<worldVars, alive, exit_code, serverVars, todo, prompt_count,
                 registry, last_call, pending, frames, delivered, late,
                 lpVars, scriptVars>>

install_sigterm_skipped ==
  /\ MainRuns("install_sigterm")
  /\ pc' = "load_start"
  /\ UNCHANGED <<worldVars, procVars, serverVars, todo, prompt_count,
                 registry, last_call, sigVars, lpVars, scriptVars>>

\* signal.signal(signal.SIGTERM, server.signal_handler)
install_sigterm ==
  /\ MainRuns("install_sigterm")
  /\ handlers' = [handlers EXCEPT !["SIGTERM"] = "signal_handler"]
  /\ events' = Append(events, InstallEv("SIGTERM", "signal_handler"))
  /\ pc' = "load_start"
  /\ UNCHANGED <<worldVars, alive, exit_code, serverVars, todo, prompt_count,
                 registry, last_call, pending, frames, delivered, late,
                 lpVars, scriptVars>>

check_app_no_guard ==
  /\ MainRuns("check_app")
  /\ events' = Append(events, Event("run", "", "", <<>>, 0))
  /\ pc' = "run"
  /\ UNCHANGED <<worldVars, alive, exit_code, serverVars, todo, prompt_count,
                 registry, last_call, sigVars, lpVars, scriptVars>>

\* if server.app is None: log and exit; otherwise enter app.run()
check_app ==
  /\ MainRuns("check_app")
  /\ IF app = None
     THEN /\ events' = Append(events, Log("error", MsgAppNone, <<>>))
          /\ pc' = "sys_exit"
     ELSE /\ events' = Append(events, Event("run", "", "", <<>>, 0))
          /\ pc' = "run"
  /\ UNCHANGED <<worldVars, alive, exit_code, serverVars, todo, prompt_count,
                 registry, last_call, sigVars, lpVars, scriptVars>>

\* the exceptions main's except clause names
MainCaught == {"OSError", "ValueError", "RuntimeError"}
RunErrors == {"OSError", "ValueError", "RuntimeError", "KeyError"}

\* app.run() raises
run_raises(exc) ==
  /\ MainRuns("run")
  /\ IF Handles(MainCaught, exc)
     THEN /\ events' = Append(events,
                             LogExc("error", MsgServerError, <<>>, exc))
          /\ pc' = "sys_exit"
          /\ UNCHANGED <<alive, exit_code>>
     ELSE /\ Uncaught(exc)
          /\ pc' = "done"
  /\ UNCHANGED <<worldVars, serverVars, todo, prompt_count, registry,
                 last_call, sigVars, lpVars, scriptVars>>

\* app.run() returns, main returns, the interpreter exits with status 0
run_returns ==
  /\ MainRuns("run")
  /\ Terminate(0)
  /\ pc' = "done"
  /\ UNCHANGED <<worldVars, serverVars, todo, prompt_count, registry,
                 last_call, sigVars, lpVars, scriptVars>>

\* ------------------------------------------------------------------------
\* register_prompt
\* ------------------------------------------------------------------------
\* self.app.prompt(name=..., description=...)(prompt_handler): the framework
\* keeps the handler under its name; the closure holds content
FastMCP_prompt(table, name, description, content) ==
  [n \in DOMAIN table \cup {name} |->
     IF n = name THEN [description |-> description, content |-> content]
     ELSE table[n]]

register_prompt_never_raises == None

\* the exception register_prompt raises, if any
register_prompt_raises == IF app = None THEN "RuntimeError" ELSE None

\* ------------------------------------------------------------------------
\* load_all_prompts
\* ------------------------------------------------------------------------
LoadCaught_only_OSError == {"OSError"}

\* the exceptions the except clause of the loop names
LoadCaught == {"OSError", "ValueError", "UnicodeDecodeError"}

SkippedName_lowercase == readme_md

\* the name the loop skips
SkippedName == README_md

load_start_no_guard ==
  /\ MainRuns("load_start")
  /\ prompt_count' = 0
  /\ todo' = Glob(dir)
  /\ pc' = "load_loop"
  /\ UNCHANGED <<worldVars, procVars, serverVars, registry, last_call,
                 sigVars, lpVars, scriptVars>>

\* prompt_count = 0, the test of prompts_dir, then the call of glob
load_start ==
  /\ MainRuns("load_start")
  /\ prompt_count' = 0
  /\ IF prompts_dir = NoPath
     THEN /\ events' = Append(events, Log("error", MsgDirNone, <<>>))
          /\ todo' = {}
          /\ pc' = "check_app"
     ELSE /\ todo' = Glob(dir)
          /\ pc' = "load_loop"
          /\ UNCHANGED events
  /\ UNCHANGED <<worldVars, alive, exit_code, serverVars, registry,
                 last_call, sigVars, lpVars, scriptVars>>

\* the loop left at the first file that fails
load_next_stops_at_error(f) ==
  /\ MainRuns("load_loop")
  /\ f \in todo
  /\ todo' = IF f # SkippedName /\ load_prompt_file(f, dir[f]).exc # None
             THEN {} ELSE todo \ {f}
  /\ IF f = SkippedName
     THEN UNCHANGED <<procVars, pc, prompt_count, registry>>
     ELSE LET r == load_prompt_file(f, dir[f])
              raised == IF r.exc # None THEN r.exc
                        ELSE register_prompt_raises
          IN  IF raised = None
              THEN /\ registry' = FastMCP_prompt(registry, r.data.name,
                                                 r.data.description,
                                                 r.data.content)
                   /\ prompt_count' = prompt_count + 1
                   /\ events' = events \o <<LoadEv(f),
                                            RegisterEv(r.data.name)>>
                   /\ UNCHANGED <<alive, exit_code, pc>>
              ELSE IF Handles(LoadCaught, raised)
              THEN /\ events' = events \o
                        <<LoadEv(f), LogExc("error", MsgLoadError, f, raised)>>
                   /\ UNCHANGED <<alive, exit_code, pc, prompt_count,
                                  registry>>
              ELSE /\ alive' = FALSE
                   /\ exit_code' = 1
                   /\ events' = events \o
                        <<LoadEv(f), TracebackEv(raised), ExitEv(1)>>
                   /\ pc' = "done"
                   /\ UNCHANGED <<prompt_count, registry>>
  /\ UNCHANGED <<worldVars, serverVars, last_call, sigVars,
                 lpVars, scriptVars>>

\* one iteration of the loop, for the entry f the iterator yields next
load_next(f) ==
  /\ MainRuns("load_loop")
  /\ f \in todo
  /\ todo' = todo \ {f}
  /\ IF f = SkippedName
     THEN UNCHANGED <<procVars, pc, prompt_count, registry>>
     ELSE LET r == load_prompt_file(f, dir[f])
              raised == IF r.exc # None THEN r.exc
                        ELSE register_prompt_raises
          IN  IF raised = None
              THEN /\ registry' = FastMCP_prompt(registry, r.data.name,
                                                 r.data.description,
                                                 r.data.content)
                   /\ prompt_count' = prompt_count + 1
                   /\ events' = events \o <<LoadEv(f),
                                            RegisterEv(r.data.name)>>
                   /\ UNCHANGED <<alive, exit_code, pc>>
              ELSE IF Handles(LoadCaught, raised)
              THEN /\ events' = events \o
                        <<LoadEv(f), LogExc("error", MsgLoadError, f, raised)>>
                   /\ UNCHANGED <<alive, exit_code, pc, prompt_count,
                                  registry>>
              ELSE /\ alive' = FALSE
                   /\ exit_code' = 1
                   /\ events' = events \o
                        <<LoadEv(f), TracebackEv(raised), ExitEv(1)>>
                   /\ pc' = "done"
                   /\ UNCHANGED <<prompt_count, registry>>
  /\ UNCHANGED <<worldVars, serverVars, last_call, sigVars,
                 lpVars, scriptVars>>

\* the iterator is exhausted: the count is logged and the pass returns
load_done ==
  /\ MainRuns("load_loop")
  /\ todo = {}
  /\ events' = Append(events, Event("log", "info", MsgLoaded, prompts_dir,
                                    prompt_count))
  /\ pc' = "check_app"
  /\ UNCHANGED <<worldVars, alive, exit_code, serverVars, todo, prompt_count,
                 registry, last_call, sigVars, lpVars, scriptVars>>

\* ------------------------------------------------------------------------
\* The framework serves a request for a registered prompt
\* ------------------------------------------------------------------------
X == <<"X">>

ArgChoices ==
  { NoneArgs,
    Args(<<>>),
    Args("other" :> X),
    Args("input" :> <<>>),
    Args(("input" :> <<" ", "y">>) @@ ("other" :> X)) }

HandlerContent_rereads(name) ==
  IF OnDisk(name \o Md).kind = "text"
  THEN UniversalNewlines(OnDisk(name \o Md).disk)
  ELSE <<>>

\* one variable shared by all closures: the content registered last
HandlerContent_shared(name) ==
  LET regs == {i \in 1..Len(events) : events[i].ev = "register"}
  IN  registry[events[SetMax(regs)].file].content

\* content as the closure registered under name holds it
HandlerContent(name) == registry[name].content

\* last_call records the call, with the file as it is at that time
serve_prompt(name, arguments) ==
  /\ MainRuns("run")
  /\ name \in DOMAIN registry
  /\ last_call' = [name |-> name, arguments |-> arguments,
                   result |-> prompt_handler(HandlerContent(name), arguments),
                   on_disk |-> OnDisk(name \o Md),
                   called |-> TRUE]
  /\ UNCHANGED <<worldVars, procVars, serverVars, pc, todo, prompt_count,
                 registry, sigVars, lpVars, scriptVars>>

\* ------------------------------------------------------------------------
\* Signals
\* ------------------------------------------------------------------------
SigNum(sig) == IF sig = "SIGINT" THEN 2 ELSE 15

\* a signal reaches the process: the default disposition kills it at once,
\* an installed Python handler is tripped and runs later
deliver(sig, recorded) ==
  /\ alive
  /\ delivered < MaxSignals
  /\ delivered' = delivered + 1
  /\ late' = IF recorded THEN (late \/ frames # <<>>) ELSE late
  /\ IF handlers[sig] = "SIG_DFL"
     THEN /\ Terminate(0 - SigNum(sig))
          /\ UNCHANGED pending
     ELSE /\ pending' = pending \cup {sig}
          /\ UNCHANGED procVars
  /\ UNCHANGED <<worldVars, serverVars, mainVars, handlers, frames,
                 lpVars, scriptVars>>

\* the interpreter runs the handler installed for a tripped signal, between
\* two instructions of whatever is running (main or a handler)
dispatch(sig) ==
  /\ alive
  /\ sig \in pending
  /\ pending' = pending \ {sig}
  /\ CASE handlers[sig] = "signal_handler" ->
            /\ frames' = Append(frames, "entry")
            /\ events' = Append(events,
                                DispatchEv(handlers[sig], signal_count))
            /\ UNCHANGED <<alive, exit_code>>
       [] handlers[sig] = "force_exit" ->
            \* lambda _s, _f: os._exit(1)
            /\ alive' = FALSE
            /\ exit_code' = 1
            /\ events' = events \o
                 <<DispatchEv(handlers[sig], signal_count), ExitEv(1)>>
            /\ UNCHANGED frames
       [] handlers[sig] = "default_int_handler" ->
            \* KeyboardInterrupt, caught nowhere
            /\ alive' = FALSE
            /\ exit_code' = 0 - SigNum(sig)
            /\ events' = events \o
                 <<DispatchEv(handlers[sig], signal_count),
                   TracebackEv("KeyboardInterrupt"), ExitEv(0 - SigNum(sig))>>
            /\ UNCHANGED frames
  /\ UNCHANGED <<worldVars, serverVars, mainVars, handlers, delivered, late,
                 lpVars, scriptVars>>

\* ------------------------------------------------------------------------
\* signal_handler, one statement at a time, for the innermost running call
\* ------------------------------------------------------------------------
Top == frames[Len(frames)]
SetTop(p) == [frames EXCEPT ![Len(frames)] = p]
HandlerAt(p) == alive /\ frames # <<>> /\ Top = p

sh_count_by_two ==
  /\ HandlerAt("entry")
  /\ signal_count' = signal_count + 2
  /\ frames' = SetTop(IF signal_count' = 1 THEN "log_graceful"
                      ELSE "log_warning")
  /\ UNCHANGED <<worldVars, procVars, prompts_dir, app, mainVars, handlers,
                 pending, delivered, late, lpVars, scriptVars>>

sh_count_always_graceful ==
  /\ HandlerAt("entry")
  /\ signal_count' = signal_count + 1
  /\ frames' = SetTop("log_graceful")
  /\ UNCHANGED <<worldVars, procVars, prompts_dir, app, mainVars, handlers,
                 pending, delivered, late, lpVars, scriptVars>>

\* self.signal_count += 1, then the test of signal_count == 1
sh_count ==
  /\ HandlerAt("entry")
  /\ signal_count' = signal_count + 1
  /\ frames' = SetTop(IF signal_count' = 1 THEN "log_graceful"
                      ELSE "log_warning")
  /\ UNCHANGED <<worldVars, procVars, prompts_dir, app, mainVars, handlers,
                 pending, delivered, late, lpVars, scriptVars>>

sh_log_graceful ==
  /\ HandlerAt("log_graceful")
  /\ events' = Append(events, Log("info", MsgGraceful, <<>>))
  /\ frames' = SetTop("log_hint")
  /\ UNCHANGED <<worldVars, alive, exit_code, serverVars, mainVars, handlers,
                 pending, delivered, late, lpVars, scriptVars>>

sh_log_hint_then_exit ==
  /\ HandlerAt("log_hint")
  /\ events' = Append(events, Log("info", MsgHint, <<>>))
  /\ frames' = SetTop("exit_0")
  /\ UNCHANGED <<worldVars, alive, exit_code, serverVars, mainVars, handlers,
                 pending, delivered, late, lpVars, scriptVars>>

sh_log_hint ==
  /\ HandlerAt("log_hint")
  /\ events' = Append(events, Log("info", MsgHint, <<>>))
  /\ frames' = SetTop("rearm_sigint")
  /\ UNCHANGED <<worldVars, alive, exit_code, serverVars, mainVars, handlers,
                 pending, delivered, late, lpVars, scriptVars>>

\* signal.signal(signal.SIGINT, lambda _s, _f: os._exit(1))
sh_rearm_sigint ==
  /\ HandlerAt("rearm_sigint")
  /\ handlers' = [handlers EXCEPT !["SIGINT"] = "force_exit"]
  /\ events' = Append(events, InstallEv("SIGINT", "force_exit"))
  /\ frames' = SetTop("rearm_sigterm")
  /\ UNCHANGED <<worldVars, alive, exit_code, serverVars, mainVars, pending,
                 delivered, late, lpVars, scriptVars>>

\* signal.signal(signal.SIGTERM, lambda _s, _f: os._exit(1))
sh_rearm_sigterm ==
  /\ HandlerAt("rearm_sigterm")
  /\ handlers' = [handlers EXCEPT !["SIGTERM"] = "force_exit"]
  /\ events' = Append(events, InstallEv("SIGTERM", "force_exit"))
  /\ frames' = SetTop("exit_0")
  /\ UNCHANGED <<worldVars, alive, exit_code, serverVars, mainVars, pending,
                 delivered, late, lpVars, scriptVars>>

\* os._exit(0)
sh_exit_0 ==
  /\ HandlerAt("exit_0")
  /\ Terminate(0)
  /\ UNCHANGED <<worldVars, serverVars, mainVars, sigVars, lpVars, scriptVars>>

sh_log_warning ==
  /\ HandlerAt("log_warning")
  /\ events' = Append(events, Log("warning", MsgSecond, <<>>))
  /\ frames' = SetTop("exit_1")
  /\ UNCHANGED <<worldVars, alive, exit_code, serverVars, mainVars, handlers,
                 pending, delivered, late, lpVars, scriptVars>>

sh_exit_1_status_0 ==
  /\ HandlerAt("exit_1")
  /\ Terminate(0)
  /\ UNCHANGED <<worldVars, serverVars, mainVars, sigVars, lpVars, scriptVars>>

\* os._exit(1)
sh_exit_1 ==
  /\ HandlerAt("exit_1")
  /\ Terminate(1)
  /\ UNCHANGED <<worldVars, serverVars, mainVars, sigVars, lpVars, scriptVars>>

signal_handler ==
  \/ sh_count
  \/ sh_log_graceful
  \/ sh_log_hint
  \/ sh_rearm_sigint
  \/ sh_rearm_sigterm
  \/ sh_exit_0
  \/ sh_log_warning
  \/ sh_exit_1

\* ------------------------------------------------------------------------
\* The server process
\* ------------------------------------------------------------------------
NotLoaded == [exc |-> "not loaded", data |-> NoRecord]

\* the pairs of a PROMPTS_DIR value and the directory behind it: every
\* directory behind the absolute path, one behind the other valid values,
\* none behind a value that names no directory
Configs ==
  {<<e, d>> : e \in {<<"/", "p">>}, d \in Directories}
    \cup {<<e, Restrict(Universe, {a_md, README_md})>> :
            e \in EnvValid \ {<<"/", "p">>}}
    \cup {<<e, Restrict(Universe, {})>> :
            e \in EnvMissing \cup EnvNoHome \cup EnvAbsent}

Init ==
  /\ \E c \in Configs : env = c[1] /\ dir = c[2]
  /\ alive = TRUE
  /\ exit_code = 0
  /\ events = <<>>
  /\ prompts_dir = NoPath
  /\ app = None
  /\ signal_count = 0
  /\ pc = "construct"
  /\ todo = {}
  /\ prompt_count = 0
  /\ registry = <<>>
  /\ last_call = NoCall
  /\ handlers = [s \in Signals |->
                   IF s = "SIGINT" THEN "default_int_handler" ELSE "SIG_DFL"]
  /\ pending = {}
  /\ frames = <<>>
  /\ delivered = 0
  /\ late = FALSE
  /\ lp_path = <<>>
  /\ lp_disk = TextFile(<<>>)
  /\ lp_out = NotLoaded
  /\ NoScript

Next ==
  \/ initialize_server
  \/ check_prompts_dir
  \/ sys_exit
  \/ main_start
  \/ install_sigint
  \/ install_sigterm
  \/ load_start
  \/ \E f \in DOMAIN Universe : load_next(f)
  \/ load_done
  \/ check_app
  \/ \E n \in DOMAIN registry, a \in ArgChoices : serve_prompt(n, a)
  \/ \E e \in RunErrors : run_raises(e)
  \/ run_returns
  \/ \E s \in Signals : deliver(s, FALSE)
  \/ \E s \in Signals : dispatch(s)
  \/ signal_handler

Spec == Init /\ [][Next]_vars

\* ------------------------------------------------------------------------
\* The server process on one valid configuration, with the time of each
\* signal delivery recorded: late is set by a delivery that happens while a
\* signal_handler call is running
\* ------------------------------------------------------------------------
InitSignal ==
  /\ Init
  /\ env = <<"/", "p">>
  /\ dir = Restrict(Universe, {a_md, enc_md})

NextSignal ==
  \/ initialize_server
  \/ check_prompts_dir
  \/ main_start
  \/ install_sigint
  \/ install_sigterm
  \/ load_start
  \/ \E f \in DOMAIN Universe : load_next(f)
  \/ load_done
  \/ check_app
  \/ \E s \in Signals : deliver(s, TRUE)
  \/ \E s \in Signals : dispatch(s)
  \/ signal_handler

SpecSignal == InitSignal /\ [][NextSignal]_vars

\* ------------------------------------------------------------------------
\* main on a server object built field by field (the tests' create_test_server
\* and patched class: prompts_dir and app each set or None), with the files
\* of registered prompts changing underneath and no signal arriving
\* ------------------------------------------------------------------------
Changed == <<"n", "e", "w">>

\* the source file of a registered prompt is rewritten
modify_file(f) ==
  /\ alive
  /\ f \in DOMAIN dir
  /\ Stem(f) \in DOMAIN registry
  /\ dir[f] = Universe[f]
  /\ dir' = [dir EXCEPT ![f] = TextFile(Changed)]
  /\ UNCHANGED <<env, procVars, serverVars, mainVars, sigVars,
                 lpVars, scriptVars>>

\* the source file of a registered prompt is deleted
delete_file(f) ==
  /\ alive
  /\ f \in DOMAIN dir
  /\ Stem(f) \in DOMAIN registry
  /\ dir' = Restrict(dir, DOMAIN dir \ {f})
  /\ UNCHANGED <<env, procVars, serverVars, mainVars, sigVars,
                 lpVars, scriptVars>>

ApiFiles == {a_md, readme_md, README_md, bad_md}
ApiDirectories == {Restrict(Universe, S) : S \in SUBSET ApiFiles}

InitApi ==
  /\ env = <<"/", "p">>
  /\ dir \in ApiDirectories
  /\ alive = TRUE
  /\ exit_code = 0
  /\ events = <<>>
  /\ prompts_dir \in {NoPath, <<"/", "p">>}
  /\ app \in {None, "FastMCP"}
  /\ signal_count = 0
  /\ pc = "main_start"
  /\ todo = {}
  /\ prompt_count = 0
  /\ registry = <<>>
  /\ last_call = NoCall
  /\ handlers = [s \in Signals |->
                   IF s = "SIGINT" THEN "default_int_handler" ELSE "SIG_DFL"]
  /\ pending = {}
  /\ frames = <<>>
  /\ delivered = 0
  /\ late = FALSE
  /\ lp_path = <<>>
  /\ lp_disk = TextFile(<<>>)
  /\ lp_out = NotLoaded
  /\ NoScript

NextApi ==
  \/ main_start
  \/ install_sigint
  \/ install_sigterm
  \/ load_start
  \/ \E f \in DOMAIN Universe : load_next(f)
  \/ load_done
  \/ check_app
  \/ sys_exit
  \/ \E n \in DOMAIN registry, a \in ArgChoices : serve_prompt(n, a)
  \/ \E e \in RunErrors : run_raises(e)
  \/ run_returns
  \/ \E f \in DOMAIN Universe : modify_file(f)
  \/ \E f \in DOMAIN Universe : delete_file(f)

SpecApi == InitApi /\ [][NextApi]_vars

\* ------------------------------------------------------------------------
\* load_prompt_file on its own: one call on one file
\* ------------------------------------------------------------------------
Repeat(c, n) == [i \in 1..n |-> c]

\* 104 characters between its outer blanks; the 100th is a blank
LongLine ==
  <<" ">> \o Repeat("x", 99) \o <<" ">> \o Repeat("y", 4) \o <<" ", TAB>>

MarkerVariant ==
  <<" ", "#", " ", "I", "d", "e", "n", "t", "i", "t", "y", " ", "a", "n",
    "d", " ", "p", "u", "r", "p", "o", "s", "e", "s">>

LineAtoms ==
  { IdentityMarker,
    MarkerVariant,
    HeadingA,
    <<" ", "#", "B">>,
    <<>>,
    <<" ", TAB>>,
    <<" ", "D", "o", " ", " ", "A", ".", " ">>,
    <<"u", "s", "e", CR>>,
    LongLine }

LinesUpTo(n) == UNION {[1..k -> LineAtoms] : k \in 0..n}

\* a path whose directory part has a dot of its own
deep_md == <<"/", "p", ".", "d", "/", "q", ".", "m", "d">>

test_prompt_with_underscores_md ==
  <<"t", "e", "s", "t", "_", "p", "r", "o", "m", "p", "t", "_", "w", "i", "t",
    "h", "_", "u", "n", "d", "e", "r", "s", "c", "o", "r", "e", "s">> \o Md

LoadNames ==
  {a_md, b_c_md, README_md, dot_md, x_md, n_txt, deep_md,
   test_prompt_with_underscores_md}

FewFiles ==
  {TextFile(<<>>), TextFile(IgnoreMe)}
    \cup {BadFile(k) : k \in FileKinds \ {"text"}}

\* prompt files longer than the generated ones: a typical one, one whose
\* marker line comes twice, and one whose lines end in "\r\n"
LongerFiles ==
  { <<HeadingA, <<>>, IdentityMarker, DoesA, <<>>, HeadingUsage, UseIt>>,
    <<IdentityMarker, DoesA, IdentityMarker, UseIt>>,
    <<HeadingA \o <<CR>>, <<CR>>, DoesA \o <<CR>>, <<>>>> }

LoadInputs ==
  {<<a_md, TextFile(Join(ls))>> : ls \in LinesUpTo(MaxLines) \cup LongerFiles}
    \cup (LoadNames \X FewFiles)

InitLoad ==
  /\ \E c \in {<<Unset, Restrict(Universe, {})>>} : env = c[1] /\ dir = c[2]
  /\ alive = TRUE
  /\ exit_code = 0
  /\ events = <<>>
  /\ prompts_dir = NoPath
  /\ app = None
  /\ signal_count = 0
  /\ pc = "lp_call"
  /\ todo = {}
  /\ prompt_count = 0
  /\ registry = <<>>
  /\ last_call = NoCall
  /\ handlers = [s \in Signals |->
                   IF s = "SIGINT" THEN "default_int_handler" ELSE "SIG_DFL"]
  /\ pending = {}
  /\ frames = <<>>
  /\ delivered = 0
  /\ late = FALSE
  /\ \E inp \in LoadInputs : lp_path = inp[1] /\ lp_disk = inp[2]
  /\ lp_out = NotLoaded
  /\ NoScript

lp_load ==
  /\ pc = "lp_call"
  /\ lp_out' = load_prompt_file(lp_path, lp_disk)
  /\ pc' = "lp_return"
  /\ UNCHANGED <<worldVars, procVars, serverVars, todo, prompt_count,
                 registry, last_call, sigVars, lp_path, lp_disk,
                 scriptVars>>

NextLoad == lp_load

SpecLoad == InitLoad /\ [][NextLoad]_vars

\* ------------------------------------------------------------------------
\* run_command and run_single_command (dev.py and release.py, same code)
\* ------------------------------------------------------------------------
MaxCommands == 3   \* sub-commands chained in one command string

\* the status a parent process sees after sys.exit(code): its low eight bits
ExitStatus(code) == code % 256

\* sys.exit(code), caught nowhere
SysExit(code) == Terminate(ExitStatus(code))

\* subprocess.run(...) ran a child to its end: what was run, what it
\* printed, its returncode
SubprocessEv(step, out, rc) == Event("subprocess", step, out, <<>>, rc)
\* subprocess.run(...) found no such program
NotFoundEv(step) == Event("not found", step, "", <<>>, 0)

\* returncode of a child: 0, an exit code of its own, or minus the number of
\* the signal that killed it
ReturnCodes == {0, 1, 2, 3, 0 - 15}

Amp == "&"
HasAmpAmp(s) == \E i \in 1..(Len(s) - 1) : s[i] = Amp /\ s[i + 1] = Amp

\* str.split("&&")
RECURSIVE SplitAmp(_)
SplitAmp(s) ==
  IF ~HasAmpAmp(s) THEN <<s>>
  ELSE LET i == SetMin({k \in 1..(Len(s) - 1) : s[k] = Amp /\ s[k + 1] = Amp})
       IN  <<SubSeq(s, 1, i - 1)>> \o SplitAmp(SubSeq(s, i + 2, Len(s)))

\* the commands run_command hands to run_single_command, in order
SubCommands(c) ==
  IF HasAmpAmp(c)
  THEN LET parts == SplitAmp(c)
       IN  [i \in 1..Len(parts) |-> Strip(parts[i])]
  ELSE <<c>>

\* shlex.split raises ValueError on a quotation that is not closed
Quote == "'"
Unbalanced(c) == Cardinality({i \in 1..Len(c) : c[i] = Quote}) % 2 = 1

\* shlex.split gives no word at all: subprocess.run([]) raises IndexError
NoWords(c) == Strip(c) = <<>>

\* the first part of run_command: the test for "&&" and the split
run_command ==
  /\ alive
  /\ pc = "run_command"
  /\ commands' = SubCommands(cmd)
  /\ pc' = "run_single_command"
  /\ UNCHANGED <<worldVars, procVars, serverVars, todo, prompt_count,
                 registry, last_call, sigVars, lpVars, argv, cmd,
                 prerelease_type, publish_index, ret>>

run_single_command_goes_on ==
  /\ alive
  /\ pc = "run_single_command"
  /\ LET c == Head(commands)
     IN  IF Unbalanced(c)
         THEN Uncaught("ValueError") /\ UNCHANGED <<pc, commands>>
         ELSE IF NoWords(c)
         THEN Uncaught("IndexError") /\ UNCHANGED <<pc, commands>>
         ELSE \E found \in BOOLEAN, rc \in ReturnCodes :
                IF ~found
                THEN /\ alive' = FALSE
                     /\ exit_code' = 1
                     /\ events' = events \o <<NotFoundEv(c), ExitEv(1)>>
                     /\ UNCHANGED <<pc, commands>>
                ELSE /\ events' = Append(events, SubprocessEv(c, "", rc))
                     /\ commands' = Tail(commands)
                     /\ pc' = IF commands' = <<>> THEN ret ELSE pc
                     /\ UNCHANGED <<alive, exit_code>>
  /\ UNCHANGED <<worldVars, serverVars, todo, prompt_count, registry,
                 last_call, sigVars, lpVars, argv, cmd, prerelease_type,
                 publish_index, ret>>

\* one iteration of the loop of run_command: run_single_command on the next
\* sub-command
run_single_command ==
  /\ alive
  /\ pc = "run_single_command"
  /\ LET c == Head(commands)
     IN  IF Unbalanced(c)
         THEN Uncaught("ValueError") /\ UNCHANGED <<pc, commands>>
         ELSE IF NoWords(c)
         THEN Uncaught("IndexError") /\ UNCHANGED <<pc, commands>>
         ELSE \E found \in BOOLEAN, rc \in ReturnCodes :
                IF ~found
                THEN /\ alive' = FALSE
                     /\ exit_code' = 1
                     /\ events' = events \o <<NotFoundEv(c), ExitEv(1)>>
                     /\ UNCHANGED <<pc, commands>>
                ELSE IF rc # 0
                THEN /\ alive' = FALSE
                     /\ exit_code' = ExitStatus(rc)
                     /\ events' = events \o <<SubprocessEv(c, "", rc),
                                              ExitEv(ExitStatus(rc))>>
                     /\ UNCHANGED <<pc, commands>>
                ELSE /\ events' = Append(events, SubprocessEv(c, "", rc))
                     /\ commands' = Tail(commands)
                     /\ pc' = IF commands' = <<>> THEN ret ELSE pc
                     /\ UNCHANGED <<alive, exit_code>>
  /\ UNCHANGED <<worldVars, serverVars, todo, prompt_count, registry,
                 last_call, sigVars, lpVars, argv, cmd, prerelease_type,
                 publish_index, ret>>

\* the sub-commands of the generated command strings
CommandAtoms ==
  { <<"a">>,
    <<" ", "b", " ", "x", " ">>,
    <<" ">>,
    <<"c", Amp>>,
    <<"e", " ", Quote, "f", " ">>,
    <<" ", "g", Quote>> }

\* "&&".join(parts)
RECURSIVE JoinAmp(_)
JoinAmp(parts) ==
  IF parts = <<>> THEN <<>>
  ELSE IF Len(parts) = 1 THEN parts[1]
  ELSE parts[1] \o <<Amp, Amp>> \o JoinAmp(Tail(parts))

CommandStrings ==
  {JoinAmp(parts) : parts \in UNION {[1..k -> CommandAtoms] : k \in 1..MaxCommands}}

\* run_command called once, on one command string
InitRun ==
  /\ \E c \in {<<Unset, Restrict(Universe, {})>>} : env = c[1] /\ dir = c[2]
  /\ alive = TRUE
  /\ exit_code = 0
  /\ events = <<>>
  /\ prompts_dir = NoPath
  /\ app = None
  /\ signal_count = 0
  /\ pc = "run_command"
  /\ todo = {}
  /\ prompt_count = 0
  /\ registry = <<>>
  /\ last_call = NoCall
  /\ handlers = [s \in Signals |->
                   IF s = "SIGINT" THEN "default_int_handler" ELSE "SIG_DFL"]
  /\ pending = {}
  /\ frames = <<>>
  /\ delivered = 0
  /\ late = FALSE
  /\ lp_path = <<>>
  /\ lp_disk = TextFile(<<>>)
  /\ lp_out = NotLoaded
  /\ argv = <<>>
  /\ cmd \in CommandStrings
  /\ prerelease_type = None
  /\ publish_index = None
  /\ commands = <<>>
  /\ ret = "returned"

NextRun ==
  \/ run_command
  \/ run_single_command

SpecRun == InitRun /\ [][NextRun]_vars

\* ------------------------------------------------------------------------
\* release.py
\* ------------------------------------------------------------------------
\* a str or None that an if statement takes as true
Truthy(x) == x # None /\ x # ""

\* parse_arguments: the while loop over sys.argv[1:], from position i on
RECURSIVE ParseArguments(_, _, _, _)
ParseArguments(args, i, prerelease, publish) ==
  IF i > Len(args)
  THEN [exits |-> FALSE, prerelease |-> prerelease, publish |-> publish]
  ELSE IF args[i] = "--publish"
  THEN IF i + 1 > Len(args)
       THEN [exits |-> TRUE, prerelease |-> prerelease, publish |-> publish]
       ELSE ParseArguments(args, i + 2, prerelease, args[i + 1])
  ELSE IF args[i] \in {"alpha", "beta", "rc"}
  THEN ParseArguments(args, i + 1, args[i], publish)
  ELSE ParseArguments(args, i + 1, prerelease, publish)

ArgvChoices ==
  { <<>>,
    <<"alpha">>,
    <<"--verbose">>,
    <<"--publish">>,
    <<"--publish", "pypi">>,
    <<"--publish", "">>,
    <<"--publish", "nowhere">>,
    <<"--publish", "rc">>,
    <<"beta", "--publish", "testpypi">> }

\* the sections of DEFAULT_CONFIG
DefaultSections == {"distutils", "pypi", "testpypi"}
\* repository in config: a section, or the default section of ConfigParser
InConfig(repository, pypirc) ==
  repository \in {"DEFAULT"} \cup DefaultSections \cup pypirc

\* the argument lists handed to subprocess.run
GitBranch == <<"git", "branch", "--show-current">>
GitStatus == <<"git", "status", "-s">>
BumpCmd(prerelease) ==
  IF Truthy(prerelease)
  THEN <<"uv", "run", "cz", "bump", "--prerelease", prerelease, "--yes">>
  ELSE <<"uv", "run", "cz", "bump", "--yes">>
\* build_uv_publish_command without the options of the credentials
PublishCmd == <<"uv", "publish">>

\* check_working_tree_clean: some line of the output has content
Changes(out) == Strip(out) # <<>>

UvBuild == <<"u", "v", " ", "b", "u", "i", "l", "d">>

\* the script ends: main returns, or run_release returns early
ScriptEnds == Terminate(0) /\ pc' = "done"

\* _check_uv_available
check_uv_available ==
  /\ alive
  /\ pc = "check_uv"
  /\ \E found \in BOOLEAN :
       IF found
       THEN pc' = "parse_arguments" /\ UNCHANGED procVars
       ELSE SysExit(1) /\ UNCHANGED pc
  /\ UNCHANGED <<worldVars, serverVars, todo, prompt_count, registry,
                 last_call, sigVars, lpVars, scriptVars>>

parse_arguments ==
  /\ alive
  /\ pc = "parse_arguments"
  /\ LET r == ParseArguments(argv, 1, None, None)
     IN  IF r.exits
         THEN /\ SysExit(1)
              /\ UNCHANGED <<pc, prerelease_type, publish_index>>
         ELSE /\ prerelease_type' = r.prerelease
              /\ publish_index' = r.publish
              /\ pc' = "validate_branch"
              /\ UNCHANGED procVars
  /\ UNCHANGED <<worldVars, serverVars, todo, prompt_count, registry,
                 last_call, sigVars, lpVars, argv, cmd, commands, ret>>

\* validate_release_environment, first part: get_current_branch and the
\* test of the branch
validate_branch ==
  /\ alive
  /\ pc = "validate_branch"
  /\ \E rc \in {0, 128}, branch \in {"main", "master", "dev", ""} :
       IF rc # 0 \/ branch \notin {"main", "master"}
       THEN /\ alive' = FALSE
            /\ exit_code' = 1
            /\ events' = events \o
                 <<SubprocessEv(GitBranch, branch, rc), ExitEv(1)>>
            /\ UNCHANGED pc
       ELSE /\ events' = Append(events, SubprocessEv(GitBranch, branch, rc))
            /\ pc' = "check_working_tree_clean"
            /\ UNCHANGED <<alive, exit_code>>
  /\ UNCHANGED <<worldVars, serverVars, todo, prompt_count, registry,
                 last_call, sigVars, lpVars, scriptVars>>

check_working_tree_clean ==
  /\ alive
  /\ pc = "check_working_tree_clean"
  /\ \E rc \in {0, 128}, out \in {<<>>, <<" ", NL>>, <<" ", "M", " ", "x">>} :
       IF rc # 0 \/ Changes(out)
       THEN /\ alive' = FALSE
            /\ exit_code' = 1
            /\ events' = events \o
                 <<SubprocessEv(GitStatus, out, rc), ExitEv(1)>>
            /\ UNCHANGED pc
       ELSE /\ events' = Append(events, SubprocessEv(GitStatus, out, rc))
            /\ pc' = "clear_dist_directory"
            /\ UNCHANGED <<alive, exit_code>>
  /\ UNCHANGED <<worldVars, serverVars, todo, prompt_count, registry,
                 last_call, sigVars, lpVars, scriptVars>>

\* dist/ is removed when it exists; then main calls run_prerelease or
\* run_release
clear_dist_directory ==
  /\ alive
  /\ pc = "clear_dist_directory"
  /\ \E exists \in BOOLEAN :
       events' = Append(events, Event("dist cleared", "", "", <<>>,
                                      IF exists THEN 1 ELSE 0))
  /\ pc' = "run_bump_command"
  /\ UNCHANGED <<worldVars, alive, exit_code, serverVars, todo, prompt_count,
                 registry, last_call, sigVars, lpVars, scriptVars>>

run_bump_command_always_true ==
  /\ alive
  /\ pc = "run_bump_command"
  /\ \E rc \in ReturnCodes :
       IF rc \in {0, 3}
       THEN /\ events' = Append(events, SubprocessEv(BumpCmd(prerelease_type), "", rc))
            /\ cmd' = UvBuild
            /\ ret' = "run_publish_command"
            /\ pc' = "run_command"
            /\ UNCHANGED <<alive, exit_code>>
       ELSE /\ alive' = FALSE
            /\ exit_code' = ExitStatus(rc)
            /\ events' = events \o
                 <<SubprocessEv(BumpCmd(prerelease_type), "", rc), ExitEv(ExitStatus(rc))>>
            /\ UNCHANGED <<pc, cmd, ret>>
  /\ UNCHANGED <<worldVars, serverVars, todo, prompt_count, registry,
                 last_call, sigVars, lpVars, argv, prerelease_type,
                 publish_index, commands>>

\* run_bump_command and what run_release (or run_prerelease) does with its
\* result: return, or call run_command("uv build", ...)
run_bump_command ==
  /\ alive
  /\ pc = "run_bump_command"
  /\ \E rc \in ReturnCodes :
       IF rc = 3 /\ ~Truthy(publish_index)
       THEN /\ alive' = FALSE
            /\ exit_code' = 0
            /\ events' = events \o <<SubprocessEv(BumpCmd(prerelease_type), "", rc), ExitEv(0)>>
            /\ pc' = "done"
            /\ UNCHANGED <<cmd, ret>>
       ELSE IF rc \in {0, 3}
       THEN /\ events' = Append(events, SubprocessEv(BumpCmd(prerelease_type), "", rc))
            /\ cmd' = UvBuild
            /\ ret' = "run_publish_command"
            /\ pc' = "run_command"
            /\ UNCHANGED <<alive, exit_code>>
       ELSE /\ alive' = FALSE
            /\ exit_code' = ExitStatus(rc)
            /\ events' = events \o
                 <<SubprocessEv(BumpCmd(prerelease_type), "", rc), ExitEv(ExitStatus(rc))>>
            /\ UNCHANGED <<pc, cmd, ret>>
  /\ UNCHANGED <<worldVars, serverVars, todo, prompt_count, registry,
                 last_call, sigVars, lpVars, argv, prerelease_type,
                 publish_index, commands>>

\* run_publish_command, then the return of main
run_publish_command ==
  /\ alive
  /\ pc = "run_publish_command"
  /\ IF Truthy(publish_index)
     THEN \E pypirc \in SUBSET {"nowhere"} :
            IF ~InConfig(publish_index, pypirc)
            THEN \* _load_pypi_config raises ValueError
                 Uncaught("ValueError") /\ UNCHANGED pc
            ELSE \E rc \in ReturnCodes :
                   /\ alive' = FALSE
                   /\ exit_code' = ExitStatus(rc)
                   /\ events' = events \o
                        <<SubprocessEv(PublishCmd, publish_index, rc),
                          ExitEv(ExitStatus(rc))>>
                   /\ pc' = IF rc = 0 THEN "done" ELSE pc
     ELSE ScriptEnds
  /\ UNCHANGED <<worldVars, serverVars, todo, prompt_count, registry,
                 last_call, sigVars, lpVars, scriptVars>>

\* release.py started with some command line
InitRelease ==
  /\ \E c \in {<<Unset, Restrict(Universe, {})>>} : env = c[1] /\ dir = c[2]
  /\ alive = TRUE
  /\ exit_code = 0
  /\ events = <<>>
  /\ prompts_dir = NoPath
  /\ app = None
  /\ signal_count = 0
  /\ pc = "check_uv"
  /\ todo = {}
  /\ prompt_count = 0
  /\ registry = <<>>
  /\ last_call = NoCall
  /\ handlers = [s \in Signals |->
                   IF s = "SIGINT" THEN "default_int_handler" ELSE "SIG_DFL"]
  /\ pending = {}
  /\ frames = <<>>
  /\ delivered = 0
  /\ late = FALSE
  /\ lp_path = <<>>
  /\ lp_disk = TextFile(<<>>)
  /\ lp_out = NotLoaded
  /\ argv \in ArgvChoices
  /\ cmd = <<>>
  /\ prerelease_type = None
  /\ publish_index = None
  /\ commands = <<>>
  /\ ret = ""

NextRelease ==
  \/ check_uv_available
  \/ parse_arguments
  \/ validate_branch
  \/ check_working_tree_clean
  \/ clear_dist_directory
  \/ run_bump_command
  \/ run_command
  \/ run_single_command
  \/ run_publish_command

SpecRelease == InitRelease /\ [][NextRelease]_vars

\* ------------------------------------------------------------------------
\* Properties of load_prompt_file (checked under SpecLoad)
\* ------------------------------------------------------------------------
\* the call returned a record
Returned == pc = "lp_return" /\ lp_out.exc = None

\* the lines of the text that was read
ReadLines == Split(lp_out.data.content)

\* a line that, trimmed and upper-cased, starts with the marker
MarkerAt(ls, i) == StartsWith(Upper(Strip(ls[i])), IdentityMarker)
\* a line whose trimmed text starts with "#"
HeadingAt(ls, i) == StartsWith(Strip(ls[i]), <<"#">>)
\* a line whose first character is "#"
HashFirstAt(ls, i) == ls[i] # <<>> /\ ls[i][1] = "#"
BlankAt(ls, i) == Strip(ls[i]) = <<>>

HasMarker(ls) == \E i \in 1..Len(ls) : MarkerAt(ls, i)
FirstMarker(ls) == SetMin({i \in 1..Len(ls) : MarkerAt(ls, i)})
HeadingsAfter(ls, i) == {j \in (i + 1)..Len(ls) : HeadingAt(ls, j)}

\* the non-blank lines strictly between lines i and j, each trimmed, joined
\* by single spaces
RECURSIVE Between(_, _, _)
Between(ls, i, j) ==
  IF i + 1 >= j THEN <<>>
  ELSE IF BlankAt(ls, i + 1) THEN Between(ls, i + 1, j)
  ELSE LET rest == Between(ls, i + 1, j)
       IN  IF rest = <<>> THEN Strip(ls[i + 1])
           ELSE Strip(ls[i + 1]) \o <<" ">> \o rest

\* the file has a marker line, then at least one non-blank line, then a
\* heading: the first marker, and the first heading after it
MarkedSection(ls) ==
  /\ HasMarker(ls)
  /\ HeadingsAfter(ls, FirstMarker(ls)) # {}
  /\ Between(ls, FirstMarker(ls),
             SetMin(HeadingsAfter(ls, FirstMarker(ls)))) # <<>>

\* C8: for every file with a marker line followed by one or more non-empty
\* lines and then a new #-prefixed heading, the description is exactly those
\* intervening lines, trimmed and joined by single spaces; nothing from
\* before the marker or from the following heading's section is in it.
C8_DescriptionIsMarkedSection ==
  (Returned /\ MarkedSection(ReadLines)) =>
    LET ls == ReadLines
        i == FirstMarker(ls)
        j == SetMin(HeadingsAfter(ls, i))
    IN  lp_out.data.description = Between(ls, i, j)

\* the qualifying lines of the fallback: non-blank, first character not "#"
Qualifying(ls) == {i \in 1..Len(ls) : ~BlankAt(ls, i) /\ ~HashFirstAt(ls, i)}

\* C9: for every file with no marker that has a non-blank, non-heading line,
\* the description is the first such line, trimmed, then cut to 100
\* characters, then "..."; so at most 103 characters, always ending in "...".
C9_FallbackDescription ==
  (Returned /\ ~HasMarker(ReadLines) /\ Qualifying(ReadLines) # {}) =>
    LET ls == ReadLines
        t == Strip(ls[SetMin(Qualifying(ls))])
        d == lp_out.data.description
    IN  /\ d = SubSeq(t, 1, IF Len(t) > 100 THEN 100 ELSE Len(t))
                 \o <<".", ".", ".">>
        /\ Len(d) <= 103
        /\ EndsWith(d, <<".", ".", ".">>)

\* a line longer than the limit, with a blank as its 100th character after
\* trimming, was the first qualifying line
C9_Witness ==
  /\ Returned /\ ~HasMarker(ReadLines) /\ Qualifying(ReadLines) # {}
  /\ Len(ReadLines) >= 2
  /\ Len(Strip(ReadLines[SetMin(Qualifying(ReadLines))])) > 100
  /\ Len(lp_out.data.description) = 103
  /\ lp_out.data.description[100] = " "

\* the title is the name with "_" replaced by " " and each word capitalized
TitleOf(name, title) ==
  /\ Len(title) = Len(name)
  /\ \A i \in 1..Len(name) :
       IF name[i] = "_" THEN title[i] = " "
       ELSE IF i = 1 \/ ~IsCased(name[i - 1])
            THEN title[i] = UpperChar(name[i])
            ELSE title[i] = LowerChar(name[i])

\* the name is the file name without its extension
\* (the base name: what follows the last "/"; the extension: the last "." of
\* the base name that is neither its first nor its last character, and what
\* follows it)
NameOf(path, name) ==
  \E k \in 0..Len(path) :
    /\ k > 0 => path[k] = "/"
    /\ \A i \in (k + 1)..Len(path) : path[i] # "/"
    /\ LET base == SubSeq(path, k + 1, Len(path))
       IN  IF \E i \in 2..(Len(base) - 1) : base[i] = "."
           THEN /\ Len(name) < Len(base)
                /\ SubSeq(base, 1, Len(name)) = name
                /\ base[Len(name) + 1] = "."
                /\ \A i \in (Len(name) + 2)..Len(base) : base[i] # "."
           ELSE name = base

\* C10: a file with no qualifying line at all (empty, or only blank lines and
\* lines starting with "#") still yields a record: name and title from the
\* file name, description empty; and empty content for an empty file.
C10_NoQualifyingLine ==
  (Returned /\ Qualifying(ReadLines) = {}) =>
    /\ lp_out.data.description = <<>>
    /\ NameOf(lp_path, lp_out.data.name)
    /\ TitleOf(lp_out.data.name, lp_out.data.title)
    /\ (lp_disk.disk = <<>> => lp_out.data.content = <<>>)

\* a file of a marker line, headings and blank lines only
C10_Witness ==
  /\ Returned /\ Qualifying(ReadLines) = {}
  /\ HasMarker(ReadLines)
  /\ \E i \in 1..Len(ReadLines) : BlankAt(ReadLines, i) /\ ReadLines[i] # <<>>
  /\ lp_out.data.description = <<>>
  /\ lp_out.data.name = <<"a">>
  /\ lp_out.data.title = <<"A">>

\* the call is over, on an entry of this kind
LoadedKind(k) == pc = "lp_return" /\ lp_disk.kind = k

\* C11: load_prompt_file never fails because of the encoding alone: for a
\* file whose bytes are not valid UTF-8 it returns a record (decoded with the
\* platform default encoding, or with the invalid sequences replaced) and
\* raises nothing.
C11_NeverFailsOnEncoding ==
  LoadedKind("badutf8") =>
    /\ lp_out.exc = None
    /\ NameOf(lp_path, lp_out.data.name)

\* C12: for a file that does not exist or cannot be opened for reading,
\* load_prompt_file returns no record and the file-access error reaches its
\* caller: FileNotFoundError for a missing file, an OSError (or a subclass)
\* for a permission or I/O failure.
C12_FileAccessErrorPropagates ==
  /\ LoadedKind("missing") => lp_out.exc = "FileNotFoundError"
  /\ LoadedKind("denied") => lp_out.exc = "PermissionError"
  /\ LoadedKind("isdir") => lp_out.exc = "IsADirectoryError"
  /\ LoadedKind("ioerror") => lp_out.exc = "OSError"
  /\ (pc = "lp_return"
        /\ lp_disk.kind \in {"missing", "denied", "isdir", "ioerror"}) =>
       /\ "OSError" \in Ancestors(lp_out.exc)
       /\ lp_out.data = NoRecord

C12_Witness ==
  /\ LoadedKind("missing")
  /\ lp_path = deep_md
  /\ lp_out.exc = "FileNotFoundError"
  /\ lp_out.data = NoRecord

\* C20: for every prompt file path, the name of the record is the base name
\* of the path with its extension stripped (the last one, when the base name
\* has several dots; none, when its only dot is its first character).
C20_NameIsStem ==
  Returned => NameOf(lp_path, lp_out.data.name)

\* a base name with two dots, and a path with a dot in its directory part
C20_Witness ==
  /\ Returned
  /\ \/ /\ lp_path = x_md
        /\ lp_out.data.name =
             <<"x", "_", "Y", "z", "_", "_", "1", "b", ".", "v", "2">>
        /\ lp_disk.disk # <<>>
     \/ /\ lp_path = deep_md
        /\ lp_out.data.name = <<"q">>
        /\ lp_disk.disk # <<>>

\* C21: for every prompt file, the title is the name with every underscore
\* replaced by a space and each word capitalized: the title has the name's
\* length, a space wherever the name has an underscore, and every other
\* character of the name unchanged except for its case, which is upper at the
\* start of a word (a run of letters) and lower inside one.
C21_TitleIsTitleCasedName ==
  Returned =>
    LET name == lp_out.data.name
        title == lp_out.data.title
    IN  /\ NameOf(lp_path, name)
        /\ Len(title) = Len(name)
        /\ \A i \in 1..Len(name) :
             /\ title[i] = " " <=> name[i] = "_"
             /\ name[i] # "_" => UpperChar(title[i]) = UpperChar(name[i])
             /\ IsCased(name[i]) =>
                  IF i > 1 /\ IsCased(name[i - 1])
                  THEN IsLower(title[i]) ELSE IsUpper(title[i])

\* the example of the claim, and a name with capitals, a doubled underscore,
\* a digit and a dot inside it
C21_Witness ==
  /\ Returned
  /\ \/ /\ lp_path = test_prompt_with_underscores_md
        /\ lp_out.data.title =
             <<"T", "e", "s", "t", " ", "P", "r", "o", "m", "p", "t", " ",
               "W", "i", "t", "h", " ", "U", "n", "d", "e", "r", "s", "c",
               "o", "r", "e", "s">>
        /\ lp_disk.disk = <<>>
     \/ /\ lp_path = x_md
        /\ lp_out.data.title =
             <<"X", " ", "Y", "z", " ", " ", "1", "B", ".", "V", "2">>
        /\ lp_disk.disk = <<>>

NoCR(s) == \A i \in 1..Len(s) : s[i] # CR
IsLineEnd(c) == c = NL \/ c = CR
\* the characters of a text that are not line ends, in order
Printed(s) == SelectSeq(s, LAMBDA c : ~IsLineEnd(c))
\* the line ends of a text as written: each "\r\n", each other "\r", each
\* other "\n"
LineEnds(s) ==
  Cardinality({i \in 1..Len(s) : s[i] = CR})
    + Cardinality({i \in 1..Len(s) : s[i] = NL /\ (i = 1 \/ s[i - 1] # CR)})

\* C22 (as stated): for every readable file, content is the text of the file
\* exactly as written: same characters, same length, line endings included.
C22_ContentIsFileAsWritten ==
  Returned => lp_out.data.content = lp_disk.disk

\* C22 (amended): content is the text of the file as text mode reads it: the
\* same characters in the same order, except that every line end of the file
\* ("\r\n", "\r" or "\n") is one "\n"; a file written without carriage
\* returns is returned exactly as written.
C22_ContentIsFileAsRead ==
  Returned =>
    LET content == lp_out.data.content
        written == lp_disk.disk
    IN  /\ NoCR(content)
        /\ Printed(content) = Printed(written)
        /\ LineEnds(content) = LineEnds(written)
        /\ Len(content) <= Len(written)
        /\ NoCR(written) => content = written

\* a file with a "\r\n" and a lone "\r" was read: content is shorter
C22_Witness ==
  /\ Returned
  /\ \E i \in 1..(Len(lp_disk.disk) - 1) :
       lp_disk.disk[i] = CR /\ lp_disk.disk[i + 1] = NL
  /\ lp_disk.disk[Len(lp_disk.disk)] = CR
  /\ Len(lp_out.data.content) = Len(lp_disk.disk) - 1
  /\ lp_out.data.content[Len(lp_out.data.content)] = NL

\* where the scan of the marked section stops: the first heading after the
\* first marker that is not a marker line itself, or the end of the file
SectionEnd(ls) ==
  LET closing == {j \in HeadingsAfter(ls, FirstMarker(ls)) : ~MarkerAt(ls, j)}
  IN  IF closing = {} THEN Len(ls) + 1 ELSE SetMin(closing)

\* the lines of the marked section that carry text
SectionLines(ls) ==
  {i \in (FirstMarker(ls) + 1)..(SectionEnd(ls) - 1) :
     ~BlankAt(ls, i) /\ ~MarkerAt(ls, i)}

\* the lines of a set, in file order, each trimmed, joined by single spaces
RECURSIVE JoinTrimmed(_, _)
JoinTrimmed(ls, S) ==
  IF S = {} THEN <<>>
  ELSE LET i == SetMin(S)
           rest == JoinTrimmed(ls, S \ {i})
       IN  IF rest = <<>> THEN Strip(ls[i])
           ELSE Strip(ls[i]) \o <<" ">> \o rest

\* what the fallback makes of a line: trimmed, cut to 100 characters, "..."
Shortened(line) ==
  LET t == Strip(line)
  IN  SubSeq(t, 1, IF Len(t) > 100 THEN 100 ELSE Len(t)) \o <<".", ".", ".">>

IndentedHeadingAt(ls, i) ==
  HeadingAt(ls, i) /\ ~HashFirstAt(ls, i) /\ ~MarkerAt(ls, i)

\* C28: the two scans of load_prompt_file do not agree on what a heading is.
\* A line with white space before its "#" ends the marked section (nothing
\* from it or after it is in the description of a section with text), yet the
\* fallback scan, which skips only lines whose first character is "#", takes
\* such a line as the description when no qualifying line precedes it.
C28_HeadingDiffersBetweenScans ==
  Returned =>
    LET ls == ReadLines
        d == lp_out.data.description
    IN  \A j \in 1..Len(ls) :
          IndentedHeadingAt(ls, j) =>
            /\ ( /\ HasMarker(ls)
                 /\ FirstMarker(ls) < j
                 /\ \A k \in (FirstMarker(ls) + 1)..(j - 1) :
                      ~HeadingAt(ls, k) \/ MarkerAt(ls, k) ) =>
                 /\ SectionEnd(ls) = j
                 /\ SectionLines(ls) # {} =>
                      d = JoinTrimmed(ls, {i \in SectionLines(ls) : i < j})
            /\ ( /\ ~HasMarker(ls) \/ SectionLines(ls) = {}
                 /\ \A k \in 1..(j - 1) : k \notin Qualifying(ls) ) =>
                 /\ d = Shortened(ls[j])
                 /\ d[1] = "#"

\* a marker, then an indented heading, then text: the heading ended the
\* section before any text, and the fallback took the heading
C28_Witness ==
  /\ Returned
  /\ LET ls == ReadLines
     IN  /\ Len(ls) = 3
         /\ MarkerAt(ls, 1) /\ HashFirstAt(ls, 1)
         /\ IndentedHeadingAt(ls, 2)
         /\ ~BlankAt(ls, 3) /\ ~HeadingAt(ls, 3)
         /\ lp_out.data.description = <<"#", "B", ".", ".", ".">>

\* ------------------------------------------------------------------------
\* Properties of the server process (checked under Spec)
\* ------------------------------------------------------------------------
Has(P(_)) == \E i \in 1..Len(events) : P(events[i])

IsLoaded(e) == e.ev = "log" /\ e.msg = MsgLoaded
IsLoadError(e) == e.ev = "log" /\ e.lvl = "error" /\ e.msg = MsgLoadError
IsTraceback(e) == e.ev = "traceback"

\* load_all_prompts has returned
PassReturned == Has(IsLoaded)

\* the .md entries other than README.md, by whether their read succeeds
Eligible == {f \in DOMAIN dir : EndsWith(f, Md) /\ f # README_md}
Valid == {f \in Eligible : dir[f].kind = "text"}
Failing == {f \in Eligible : dir[f].kind # "text"}

\* C1: with N .md files (README.md aside) that load and M whose read raises,
\* a load pass makes exactly N registrations, logs exactly M errors and
\* returns normally: no exception leaves the pass, in whatever order the
\* files are enumerated.
C1_RegistrationsAndErrors ==
  /\ PassReturned =>
       /\ Count(events, IsRegister) = Cardinality(Valid)
       /\ Cardinality(DOMAIN registry) = Cardinality(Valid)
       /\ Count(events, IsLoadError) = Cardinality(Failing)
       /\ pc = "check_app" => Count(events, IsError) = Cardinality(Failing)
       /\ \A i \in 1..Len(events) :
            IsLoaded(events[i]) => events[i].n = Cardinality(Valid)
  /\ \A i \in 1..Len(events) :
       IsLoad(events[i]) =>
         i < Len(events) /\ ~IsTraceback(events[i + 1])

C1_Witness ==
  /\ PassReturned
  /\ Cardinality(Valid) >= 1
  /\ Cardinality(Failing) >= 1
  /\ Count(events, IsRegister) = Cardinality(Valid)
  /\ Count(events, IsLoadError) = Cardinality(Failing)

README == <<"R", "E", "A", "D", "M", "E">>

\* C3: README.md (exactly that name) is never loaded or registered and no
\* prompt is ever named README; after a load pass every other *.md entry of
\* the directory has been handed to the loader.
C3_ReadmeSkipped ==
  /\ \A i \in 1..Len(events) :
       /\ IsLoad(events[i]) => events[i].file # README_md
       /\ IsRegister(events[i]) => events[i].file # README
  /\ README \notin DOMAIN registry
  /\ PassReturned =>
       \A f \in DOMAIN dir :
         (EndsWith(f, Md) /\ f # README_md) =>
           Has(LAMBDA e : IsLoad(e) /\ e.file = f)

C3_Witness ==
  /\ PassReturned
  /\ README_md \in DOMAIN dir
  /\ readme_md \in DOMAIN dir
  /\ <<"r", "e", "a", "d", "m", "e">> \in DOMAIN registry
  /\ README \notin DOMAIN registry

\* C4: a registered handler returns content + "\n\n" + input when its
\* arguments hold a non-empty "input", and content unchanged when they are
\* None, empty, without "input", or with an empty "input".
C4_HandlerResult ==
  last_call.called =>
    LET a == last_call.arguments
        c == registry[last_call.name].content
        r == last_call.result
    IN  /\ c = UniversalNewlines(dir[last_call.name \o Md].disk)
        /\ a.is_none => r = c
        /\ (~a.is_none /\ DOMAIN a.map = {}) => r = c
        /\ (~a.is_none /\ "input" \notin DOMAIN a.map) => r = c
        /\ (~a.is_none /\ "input" \in DOMAIN a.map) =>
             IF a.map["input"] = <<>> THEN r = c
             ELSE /\ Len(r) = Len(c) + 2 + Len(a.map["input"])
                  /\ SubSeq(r, 1, Len(c)) = c
                  /\ r[Len(c) + 1] = NL /\ r[Len(c) + 2] = NL
                  /\ SubSeq(r, Len(c) + 3, Len(r)) = a.map["input"]

C4_Witness ==
  /\ last_call.called
  /\ ~last_call.arguments.is_none
  /\ "input" \in DOMAIN last_call.arguments.map
  /\ last_call.arguments.map["input"] # <<>>
  /\ Len(last_call.result) > Len(registry[last_call.name].content)

GracefulPositions ==
  {"log_graceful", "log_hint", "rearm_sigint", "rearm_sigterm", "exit_0"}

\* signal_handler ended the process with status 0
GracefulExit == ~alive /\ exit_code = 0 /\ frames # <<>>

\* C5: the first interrupt handled while ARMED puts the server in
\* SHUTTING_DOWN (signal_count 1); signal_handler logs the graceful-shutdown
\* message, then the hint, then installs the force-exit handler for SIGINT
\* and for SIGTERM, and only then exits with status 0.
C5_GracefulShutdownOrder ==
  /\ (alive /\ frames # <<>> /\ Top \in GracefulPositions) =>
       signal_count = 1
  /\ GracefulExit =>
       /\ signal_count = 1
       /\ handlers = [s \in Signals |-> "force_exit"]
       /\ Len(events) >= 5
       /\ SubSeq(events, Len(events) - 4, Len(events)) =
            <<Log("info", MsgGraceful, <<>>),
              Log("info", MsgHint, <<>>),
              InstallEv("SIGINT", "force_exit"),
              InstallEv("SIGTERM", "force_exit"),
              ExitEv(0)>>

\* the interrupt came in the middle of the load pass
C5_Witness ==
  /\ GracefulExit
  /\ pc = "load_loop" /\ todo # {} /\ DOMAIN registry # {}

IsShuttingDownDispatch(e) == e.ev = "dispatch" /\ e.n >= 1
IsWarning(e) == e = Log("warning", MsgSecond, <<>>)

\* C6 as stated: every interrupt handled while already SHUTTING_DOWN logs a
\* warning and terminates the process with status 1.
C6_WarningThenExit1 ==
  \A i \in 1..Len(events) :
    (IsShuttingDownDispatch(events[i]) /\ ~alive) =>
      /\ exit_code = 1
      /\ \E j \in (i + 1)..Len(events) : IsWarning(events[j])

\* what signal_handler leaves in the trace when it takes an interrupt while
\* already SHUTTING_DOWN and runs to its end
WarningRun == <<Log("warning", MsgSecond, <<>>), ExitEv(1)>>

\* a SIGTERM still at its default disposition killed the process
DefaultKill == ExitEv(0 - SigNum("SIGTERM"))

\* C6 amended: an interrupt handled while already SHUTTING_DOWN terminates
\* the process with status 1: at once and with no log record when the
\* re-armed force-exit handler takes it; after the warning when
\* signal_handler takes it and runs to its end, which only a further
\* interrupt pre-empting it or a SIGTERM still at its default disposition
\* prevents.
C6_Exit1WarningOnlyFromSignalHandler ==
  \A i \in 1..Len(events) :
    IsShuttingDownDispatch(events[i]) =>
      LET rest == SubSeq(events, i + 1, Len(events))
      IN  /\ ~alive => exit_code \in {1, 0 - SigNum("SIGTERM")}
          /\ events[i].lvl = "force_exit" => rest = <<ExitEv(1)>>
          /\ ( /\ events[i].lvl = "signal_handler"
               /\ \A j \in 1..Len(rest) : rest[j].ev # "dispatch" ) =>
               /\ \E k \in 0..2 :
                    \/ rest = SubSeq(WarningRun, 1, k)
                    \/ rest = Append(SubSeq(WarningRun, 1, k), DefaultKill)
               /\ (~alive /\ exit_code = 1) => rest = WarningRun
               /\ Len(rest) > 0 /\ rest[Len(rest)].ev = "exit" => ~alive

\* a second interrupt reached a re-armed handler
C6_Witness ==
  /\ ~alive /\ exit_code = 1
  /\ Has(LAMBDA e : IsShuttingDownDispatch(e) /\ e.lvl = "force_exit")
  /\ handlers["SIGINT"] = "force_exit"
  /\ handlers["SIGTERM"] = "signal_handler"

ConfigError == env \in EnvAbsent \cup EnvMissing

\* C7: with PROMPTS_DIR unset, or naming a path that does not exist once
\* expanded and resolved, construction logs exactly one error (one message
\* per case) and exits with status 1; the framework instance is never
\* created and no prompt file is loaded or registered.
C7_ConfigErrorIsFatal ==
  ConfigError =>
    /\ pc \in {"construct", "check_dir", "sys_exit", "done"}
    /\ app = None
    /\ registry = <<>>
    /\ ~Has(LAMBDA e : e.ev \in {"FastMCP", "load", "register", "run"})
    /\ pc \in {"sys_exit", "done"} =>
         /\ Count(events, IsError) = 1
         /\ Has(LAMBDA e : IsError(e) /\ e.msg = (IF env \in EnvAbsent
                                                 THEN MsgRequired
                                                 ELSE MsgNoDir))
    /\ pc = "done" => (~alive /\ exit_code = 1)

C7_Witness ==
  /\ env = <<"~", "/", "x">>
  /\ pc = "done" /\ ~alive /\ exit_code = 1
  /\ Count(events, IsError) = 1

IsRun(e) == e.ev = "run"
IsServerError(e) == IsError(e) /\ e.msg = MsgServerError

\* C13: whenever app.run() raises after startup, main catches the error at
\* the outermost level, logs exactly one error that includes the underlying
\* error, and the process ends with status 1: nothing propagates out of main
\* as an unhandled exception.
C13_RunErrorCaughtAndLogged ==
  \A i \in 1..Len(events) :
    IsRun(events[i]) =>
      LET rest == SubSeq(events, i + 1, Len(events))
      IN  /\ \A j \in 1..Len(rest) : ~IsTraceback(rest[j])
          /\ Count(rest, IsError) <= 1
          /\ \A j \in 1..Len(rest) :
               IsError(rest[j]) =>
                 IsServerError(rest[j]) /\ rest[j].exc \in RunErrors
          /\ (pc = "done" /\ Count(rest, IsError) = 1) => exit_code = 1

IsInstall(e, sig) ==
  e.ev = "signal" /\ e.msg = sig /\ e.lvl = "signal_handler"
\* the load pass or the run loop has begun
IsPassOrRun(e) ==
  \/ e.ev \in {"load", "run"}
  \/ (e.ev = "log" /\ e.msg \in {MsgDirNone, MsgLoadError, MsgLoaded})

\* C18: in every execution of main that gets past construction,
\* signal_handler is installed for SIGINT and for SIGTERM, once each, after
\* the server is constructed and before load_all_prompts and the run loop
\* start; main installs nothing once the run loop has started.
C18_HandlersInstalledBeforeLoadAndRun ==
  LET idx == 1..Len(events)
      ints == {i \in idx : IsInstall(events[i], "SIGINT")}
      terms == {i \in idx : IsInstall(events[i], "SIGTERM")}
      apps == {i \in idx : events[i].ev = "FastMCP"}
      work == {i \in idx : IsPassOrRun(events[i])}
  IN  /\ Cardinality(ints) <= 1
      /\ Cardinality(terms) <= 1
      /\ \A i \in ints \cup terms :
           /\ \E c \in apps : c < i
           /\ \A k \in work : i < k
      /\ work # {} => (ints # {} /\ terms # {})
      /\ (pc \in {"load_start", "load_loop", "check_app", "run"}) =>
           \A s \in Signals : handlers[s] \in {"signal_handler", "force_exit"}

\* the run loop is entered with both handlers in place
C18_Witness ==
  /\ pc = "run" /\ alive
  /\ handlers = [s \in Signals |-> "signal_handler"]
  /\ Has(IsRun)
  /\ DOMAIN registry # {}

\* ------------------------------------------------------------------------
\* Properties of main on a hand-built server object (checked under SpecApi)
\* ------------------------------------------------------------------------
\* what the handler of a call must return for the content c
Expected(c, a) ==
  IF ~a.is_none /\ "input" \in DOMAIN a.map /\ a.map["input"] # <<>>
  THEN c \o <<NL, NL>> \o a.map["input"]
  ELSE c

\* the text the file of a prompt held when the pass read and registered it
\* (a file changes only after its prompt is registered)
ContentAtRegistration(name) == UniversalNewlines(Universe[name \o Md].disk)

\* C15: a registered handler never re-reads its file: whatever has become of
\* the source file since (rewritten, deleted), every invocation returns the
\* content captured when the prompt was registered, plus the optional input.
C15_HandlerKeepsCapturedContent ==
  last_call.called =>
    last_call.result =
      Expected(ContentAtRegistration(last_call.name), last_call.arguments)

\* handlers were invoked on a rewritten file and on a deleted one
C15_Witness ==
  /\ last_call.called
  /\ last_call.on_disk \in {TextFile(Changed), BadFile("missing")}
  /\ last_call.name = <<"a">>
  /\ Len(last_call.result) > Len(ContentAtRegistration(last_call.name))

\* the description load_prompt_file gives the two prompt files of the model
DescriptionAtRegistration(name) ==
  IF name = <<"a">> THEN DoesA ELSE IgnoreMe \o <<".", ".", ".">>

\* position in the trace of the registration of a name
RegisteredAt(name) ==
  {i \in 1..Len(events) : events[i].ev = "register" /\ events[i].file = name}

\* C24: in a load pass that registers several prompts, every handler is
\* bound to the name, description and content of its own file, at the time
\* of its registration and whatever is processed after it; an invocation of
\* the handler registered for a name returns the content of that file and
\* never the content of the file of another registered name.
C24_HandlersAreIndependent ==
  /\ \A n \in DOMAIN registry :
       /\ n \o Md \in ApiFiles
       /\ registry[n].content = ContentAtRegistration(n)
       /\ registry[n].description = DescriptionAtRegistration(n)
       /\ Cardinality(RegisteredAt(n)) = 1
  /\ last_call.called =>
       /\ StartsWith(last_call.result, ContentAtRegistration(last_call.name))
       /\ \A m \in DOMAIN registry \ {last_call.name} :
            ~StartsWith(last_call.result, ContentAtRegistration(m))

\* two prompts were registered, and the handler of the one registered first
\* was invoked afterwards
C24_Witness ==
  /\ last_call.called
  /\ DOMAIN registry = {<<"a">>, Stem(readme_md)}
  /\ \E m \in DOMAIN registry :
       /\ m # last_call.name
       /\ SetMin(RegisteredAt(last_call.name)) < SetMin(RegisteredAt(m))
  /\ last_call.arguments.is_none

\* C25 (checked under Spec): the outcome of a load pass does not depend on
\* the order in which the files are enumerated: at every point of the pass
\* the mapping from registered name to (description, content) and the errors
\* logged are determined by the set of files gone through so far, and at its
\* end by the contents of the directory alone.
C25_OutcomeIndependentOfOrder ==
  LET loads == {k \in 1..Len(events) : events[k].ev = "load"}
      errs == {k \in loads : events[k + 1].ev = "log"}
      done == {events[k].file : k \in loads}
      good == {f \in done : dir[f].kind = "text"}
  IN  /\ \A k \in loads :
           /\ events[k].file \in Eligible
           /\ events[k + 1].ev \in {"register", "log"}
           /\ events[k + 1].ev = "log" <=> dir[events[k].file].kind # "text"
           /\ events[k + 1].ev = "log" => IsLoadError(events[k + 1])
           /\ events[k + 1].file =
                IF k \in errs THEN events[k].file ELSE Stem(events[k].file)
      /\ Cardinality(errs) = Cardinality(done \ good)
      /\ DOMAIN registry = {Stem(f) : f \in good}
      /\ \A n \in DOMAIN registry :
           /\ registry[n].description = DescriptionAtRegistration(n)
           /\ registry[n].content = ContentAtRegistration(n)
      /\ pc \in {"check_app", "run"} => done = Eligible

\* a pass over a file that loads and one that fails, the failing one first
C25_Witness ==
  /\ PassReturned
  /\ \E i, j \in 1..Len(events) :
       /\ i < j
       /\ IsLoad(events[i]) /\ events[i].file \in Failing
       /\ IsLoad(events[j]) /\ events[j].file \in Valid
  /\ Cardinality(DOMAIN registry) = 1

\* PromptsMCPServer() has returned
Constructed == pc \notin {"construct", "check_dir"}

\* the signal_handler calls that have executed their increment
Counted(fs) == {i \in 1..Len(fs) : fs[i] # "entry"}

\* C26 (checked under Spec): once the server is constructed, no step of the
\* load pass, of a registration, of a handler invocation or of a signal
\* handler changes the resolved directory path or the framework handle; the
\* interrupt counter changes only in a step of signal_handler, the first of
\* each call, which adds exactly 1 to it: it never decreases and always
\* equals the number of signal_handler calls that have made that step.
C26_OnlyCounterChanges ==
  [][ Constructed =>
        /\ prompts_dir' = prompts_dir
        /\ app' = app
        /\ signal_count' >= signal_count
        /\ signal_count' # signal_count =>
             /\ signal_count' = signal_count + 1
             /\ HandlerAt("entry")
             /\ Len(frames') = Len(frames)
             /\ frames'[Len(frames')] # "entry"
        /\ signal_count' = Cardinality(Counted(frames')) ]_vars

\* prompts were registered and served, then two signal_handler calls each
\* counted once; path and handle are those of the construction
C26_Witness ==
  /\ signal_count = 2
  /\ Len(frames) = 2
  /\ last_call.called
  /\ DOMAIN registry # {}
  /\ prompts_dir = <<"/", "p">>
  /\ app = "FastMCP"

\* a signal was delivered after a signal_handler call had started, and the
\* process has terminated since
EndedAfterLateSignal == late /\ ~alive

\* C23 as stated (checked under SpecSignal): when a second SIGINT or SIGTERM
\* is delivered at any point after the first interrupt's handler has started
\* and before the process has terminated, the process terminates with exit
\* status 1, never 0.
C23_LateSignalExits1 ==
  EndedAfterLateSignal => exit_code = 1

\* C23 (amended): after such a delivery the process ends with status 1, and
\* not with 0, when the interpreter starts a handler for the signal once the
\* first call has counted its interrupt. It ends with status 0 only when no
\* handler was started after that count: the signal was still waiting when
\* os._exit(0) ran, or its handler started before the count and did the
\* graceful shutdown itself. It ends with the status of a death by SIGTERM
\* only when SIGTERM was still at its default disposition, main not having
\* installed its handler yet.
C23_LateSignalOutcome ==
  EndedAfterLateSignal =>
    LET counted == {i \in 1..Len(events) : IsShuttingDownDispatch(events[i])}
    IN  /\ exit_code \in {0, 1, 0 - SigNum("SIGTERM")}
        /\ exit_code = 1 => counted # {}
        /\ counted # {} => exit_code # 0
        /\ exit_code = 0 =>
             /\ signal_count = 1
             /\ Top = "exit_0"
             /\ \A i \in 1..(Len(frames) - 1) : frames[i] = "entry"
        /\ exit_code = 0 - SigNum("SIGTERM") =>
             /\ handlers["SIGTERM"] = "SIG_DFL"
             /\ pc = "install_sigterm"

\* the late signal was taken between the two re-armings: SIGINT already
\* at the force-exit handler, SIGTERM still at signal_handler
C23_Witness ==
  /\ EndedAfterLateSignal
  /\ exit_code = 1
  /\ handlers["SIGINT"] = "force_exit"
  /\ handlers["SIGTERM"] = "signal_handler"
  /\ delivered = 2

\* the attempts to run a program, in the order they were made
Attempts ==
  SelectSeq(events, LAMBDA e : e.ev \in {"subprocess", "not found"})

\* a text without its white space
Squeezed(t) == SelectSeq(t, LAMBDA c : c \notin Whitespace)

\* the attempt failed: no such program, or a returncode other than 0
Failed(a) == a.ev = "not found" \/ a.n # 0

\* C30 (checked under SpecRun): run_command on a command string with "&&"
\* runs the sub-commands one at a time, from left to right; at the first one
\* that is not found or returns a non-zero code the process exits, with
\* status 1 when it was not found and with the sub-command's code otherwise,
\* and no later sub-command is run; run_command returns only when every
\* sub-command has run and returned 0.
C30_ChainStopsAtFirstFailure ==
  HasAmpAmp(cmd) =>
    LET att == Attempts
        texts == [i \in 1..Len(att) |-> att[i].lvl]
        done == Squeezed(JoinAmp(texts))
        all == Squeezed(cmd)
    IN  /\ \A i \in 1..Len(att) :
             /\ ~HasAmpAmp(texts[i])
             /\ texts[i] = Strip(texts[i]) /\ texts[i] # <<>>
             /\ i < Len(att) => ~Failed(att[i])
        /\ Len(att) > 0 =>
             \/ done = all
             \/ StartsWith(all, done \o <<Amp, Amp>>)
        /\ (Len(att) > 0 /\ Failed(att[Len(att)])) =>
             LET a == att[Len(att)]
             IN  /\ ~alive
                 /\ events[Len(events)] = ExitEv(exit_code)
                 /\ events[Len(events) - 1] = a
                 /\ a.ev = "not found" => exit_code = 1
                 /\ (a.ev = "subprocess" /\ a.n > 0) => exit_code = a.n
                 /\ (a.ev = "subprocess" /\ a.n < 0) => exit_code = 256 + a.n
        /\ ~alive => exit_code # 0 /\ pc # "returned"
        /\ pc = "returned" =>
             /\ alive
             /\ done = all
             /\ Len(att) = Len(SplitAmp(cmd))
             /\ \A i \in 1..Len(att) : ~Failed(att[i])

\* a chain of three: the first ran and returned 0, the second returned 3,
\* the process exited with 3 and the third was never run
C30_Witness ==
  /\ Len(SplitAmp(cmd)) = 3
  /\ Len(Attempts) = 2
  /\ Attempts[1].n = 0 /\ Attempts[1].ev = "subprocess"
  /\ Attempts[2].n = 3 /\ Attempts[2].ev = "subprocess"
  /\ ~alive /\ exit_code = 3
  /\ ~NoWords(SplitAmp(cmd)[3])

\* the positions in the trace where the argument list step was run
RanAt(step) ==
  {i \in 1..Len(events) : events[i].ev = "subprocess" /\ events[i].lvl = step}

\* --publish followed by the index that the script ended up with
PublishGiven ==
  \E i \in 1..(Len(argv) - 1) :
    argv[i] = "--publish" /\ argv[i + 1] = publish_index

\* C29 (checked under SpecRelease): the publish command runs only when
\* --publish <index> was given, and only after the branch was found to be
\* main or master, the working tree clean, dist/ cleared, the bump returned
\* 0 or 3 and the build returned 0, in this order; a bump that returns 3
\* without an index to publish to ends the script before the build; a bump,
\* build or publish that returns any other non-zero code ends the script with
\* that code as its status and nothing runs after it; a failed validation
\* ends it with status 1.
C29_PublishOnlyAfterAllSteps ==
  LET branches == RanAt(GitBranch)
      statuses == RanAt(GitStatus)
      clears == {i \in 1..Len(events) : events[i].ev = "dist cleared"}
      bumps == RanAt(BumpCmd(prerelease_type))
      builds == RanAt(UvBuild)
      pubs == RanAt(PublishCmd)
  IN  /\ \A p \in pubs :
           /\ Truthy(publish_index)
           /\ PublishGiven
           /\ \E b \in branches, t \in statuses, c \in clears,
                 u \in bumps, d \in builds :
                /\ b < t /\ t < c /\ c < u /\ u < d /\ d < p
                /\ events[b].n = 0 /\ events[b].msg \in {"main", "master"}
                /\ events[t].n = 0 /\ ~Changes(events[t].msg)
                /\ events[u].n \in {0, 3}
                /\ events[d].n = 0
      /\ \A u \in bumps :
           (events[u].n = 3 /\ ~Truthy(publish_index)) =>
             /\ builds = {} /\ pubs = {}
             /\ ~alive /\ exit_code = 0
             /\ u = Len(events) - 1
      /\ \A i \in bumps \cup builds \cup pubs :
           (events[i].n # 0 /\ ~(i \in bumps /\ events[i].n = 3)) =>
             /\ ~alive
             /\ i = Len(events) - 1
             /\ events[Len(events)] = ExitEv(exit_code)
             /\ events[i].n > 0 => exit_code = events[i].n
             /\ events[i].n < 0 => exit_code = 256 + events[i].n
      /\ \A b \in branches :
           (events[b].n # 0 \/ events[b].msg \notin {"main", "master"}) =>
             ~alive /\ exit_code = 1 /\ b = Len(events) - 1
      /\ \A t \in statuses :
           (events[t].n # 0 \/ Changes(events[t].msg)) =>
             ~alive /\ exit_code = 1 /\ t = Len(events) - 1

\* --publish testpypi on a clean main branch: the bump found no commits
\* (3), the build returned 0 and the publish command was run and returned 0
C29_Witness ==
  /\ ~alive /\ exit_code = 0 /\ pc = "done"
  /\ publish_index = "testpypi"
  /\ \E u \in RanAt(BumpCmd(prerelease_type)), d \in RanAt(UvBuild),
        p \in RanAt(PublishCmd) :
       /\ u < d /\ d < p
       /\ events[u].n = 3 /\ events[d].n = 0 /\ events[p].n = 0

IsDirNone(e) == IsError(e) /\ e.msg = MsgDirNone
IsAppNone(e) == e = Log("error", MsgAppNone, <<>>)

\* C16: load_all_prompts called while prompts_dir is None logs a single
\* error, enumerates no directory, registers nothing and returns normally
\* (main goes on to its test of app).
C16_UnsetDirectoryLoadsNothing ==
  prompts_dir = NoPath =>
    /\ pc # "load_loop" /\ todo = {}
    /\ ~Has(IsLoad) /\ ~Has(IsRegister) /\ ~Has(IsLoaded)
    /\ registry = <<>> /\ prompt_count = 0
    /\ \A i \in 1..(Len(events) - 1) :
         IsDirNone(events[i]) =>
           IsRun(events[i + 1]) \/ IsAppNone(events[i + 1])
    /\ Count(events, IsDirNone) =
         (IF pc \in {"main_start", "install_sigint", "install_sigterm",
                     "load_start"} THEN 0 ELSE 1)
    /\ pc = "check_app" => (alive /\ Count(events, IsError) = 1)

\* the directory holds a prompt file, and main has gone on to the run loop
C16_Witness ==
  /\ prompts_dir = NoPath
  /\ a_md \in DOMAIN dir
  /\ pc = "run" /\ alive
  /\ Count(events, IsDirNone) = 1
  /\ registry = <<>>

\* C17: register_prompt called while app is None raises RuntimeError, which
\* nothing on the way out handles; the call registers no handler.
C17_RegisterWithoutAppRaises ==
  app = None =>
    /\ registry = <<>> /\ prompt_count = 0
    /\ ~Has(IsRegister)
    /\ \A i \in 1..Len(events) :
         (IsLoad(events[i]) /\ Universe[events[i].file].kind = "text") =>
           /\ Len(events) = i + 2
           /\ events[i + 1] = TracebackEv("RuntimeError")
           /\ events[i + 2] = ExitEv(1)
           /\ ~alive /\ exit_code = 1

C17_Witness ==
  /\ app = None
  /\ Has(LAMBDA e : e = LoadEv(a_md))
  /\ Has(LAMBDA e : e = TracebackEv("RuntimeError"))
  /\ Has(LAMBDA e : IsLoadError(e) /\ e.file = bad_md)
  /\ ~alive /\ exit_code = 1
  /\ registry = <<>>

\* C19: when app is None as main is about to start the run loop, main logs
\* "FastMCP app is not initialized" and exits with status 1 without calling
\* run(); both signal handlers were installed and the load pass was executed
\* before that.
C19_MissingAppIsFatal ==
  app = None =>
    /\ pc # "run" /\ ~Has(IsRun)
    /\ pc = "sys_exit" => (Has(IsAppNone) /\ events[Len(events)].ev = "log")
    /\ \A i \in 1..Len(events) :
         IsAppNone(events[i]) =>
           /\ \E j, k \in 1..(i - 1) :
                /\ IsInstall(events[j], "SIGINT")
                /\ IsInstall(events[k], "SIGTERM")
           /\ \E j \in 1..(i - 1) : IsLoaded(events[j]) \/ IsDirNone(events[j])
           /\ pc \in {"sys_exit", "done"}
           /\ pc = "done" =>
                /\ ~alive /\ exit_code = 1
                /\ Len(events) = i + 1 /\ events[i + 1] = ExitEv(1)
    /\ (pc = "done" /\ ~Has(IsTraceback)) => Has(IsAppNone)

\* the load pass ran over a directory (one file failed) before the exit
C19_Witness ==
  /\ app = None /\ prompts_dir # NoPath
  /\ bad_md \in DOMAIN dir
  /\ Has(IsLoaded) /\ Has(IsLoadError)
  /\ Has(IsAppNone)
  /\ pc = "done" /\ ~alive /\ exit_code = 1

====
